---- MODULE Spec2Model ----
(***************************************************************************)
(* State-machine model of the charging station runtime                     *)
(* (ChargingStation.ts, Helpers.ts) of the e-mobility charging stations    *)
(* simulator.  One station is modelled.  Every synchronous section of the  *)
(* JavaScript code (a handler up to its next await) is one atomic action;  *)
(* the places where event listeners observe the station in the middle of   *)
(* a synchronous section ('started', 'stopped', 'registered', 'updated')    *)
(* are states of their own.  Requests are answered, or rejected, by the    *)
(* environment; no persisted configuration file exists when the template   *)
(* file is reloaded.                                                       *)
(***************************************************************************)
EXTENDS Integers, Sequences, FiniteSets, Bags, TLC

NULL == "null"

\* ---------------------------------------------------------------- bounds
\* cap on the interval timers that can be alive at once for one connector
MaxMeterTimers == 2
\* cap on the 'accepted' listeners registered by successive initialize() runs
MaxListeners == 2
\* cap on autoReconnectRetryCount when autoReconnectMaxRetries = -1
MaxReconnectCount == 2
\* cap on the BootNotification requests of one registration loop
MaxBootSent == 3
\* cap on the sockets that are alive but no longer referenced by wsConnection
MaxDetached == 1
\* cap on the reconnect() invocations sleeping at the same time
MaxSleepers == 1
\* cap on the onOpen() invocations running at the same time
MaxOnOpenRuns == 1
\* cap on the startMessageSequence() invocations running at the same time
MaxSmsRuns == 2
\* cap on the send callbacks of flushMessageBuffer not yet called
MaxPendingSends == 2
\* cap on the addRequestStatistic calls of a run
MaxStatisticCalls == 3
\* cap on the performance measures ended in a run
MaxMeasures == 2

\* ------------------------------------------------------- input domains
RegistrationStatus == {"Accepted", "Pending", "Rejected"}
MaxRetriesChoices == {-1, 0, 1}
ReconnectRetriesChoices == {-1, 0, 1}
IntervalChoices == {0, 60}
Messages == {"m1", "m2"}
RequestIds == {"r1", "r2"}
CallIds == {"c1", "c2"}
Commands == {"Heartbeat", "StatusNotification"}
MessageTypes == {"CALL_MESSAGE", "CALL_RESULT_MESSAGE", "CALL_ERROR_MESSAGE"}

VARIABLES
  started, starting, stopping,   \* ChargingStation flags
  running,                       \* synchronous section in progress, observed by listeners
  wsConnection,                  \* readyState of the socket wsConnection refers to, or NULL
  detached,                      \* live sockets wsConnection no longer refers to, per readyState
  bootNotificationResponse,      \* status of the boot notification response, or NULL
  stationInfo,                   \* the station information the model needs
  ocppConfiguration,             \* the OCPP configuration keys the model needs
  autoReconnectRetryCount,
  heartbeatSetInterval,          \* timer handle fields: "none" or "set"
  webSocketPingSetInterval,
  flushMessageBufferSetInterval,
  intervals,                     \* interval timers alive in the event loop, per purpose
  messageBuffer,                 \* set of buffered frames
  pendingSends,                  \* send callbacks of flushMessageBuffer not yet called
  connectors, evses,             \* Map<number, ConnectorStatus>, Map<number, EvseStatus>
  acceptedListeners,             \* number of once('accepted') listeners registered
  templateFileWatcher,           \* TRUE while the template file is watched
  onOpenRuns,                    \* bag of onOpen() invocations suspended in the registration loop
  sms,                           \* bag of startMessageSequence() invocations in progress
  stopRun,                       \* the stop() invocation in progress
  stopLog,                       \* what the stop() invocation in progress has done, in order
  reconnectSleepers,             \* reconnect() invocations sleeping before the re-open
  templateFile,                  \* content of the station template file
  connectorsConfigurationHash,   \* hash of the template connectors the map was built from
  evsesConfigurationHash,        \* hash of the template evses the map was built from
  flushFirings,                  \* firings of the flush timer seen by the drain runs
  requestState,                  \* per message id of an outbound request: where its cache entry is
  callbackCalls,                 \* per message id: calls of the callbacks of its cache entry
  inboundCalls,                  \* per message id of an inbound CALL: where its handling is
  reservationRuns,               \* bag of addReservation()/removeReservation() invocations suspended at an await
  lastReturn,                    \* how the reservation call that ended in the last step ended
  roundTrip,                     \* the addReservation/removeReservation pair in progress
  sweep,                         \* the removeExpiredReservations() invocation in progress
  configurationFileHash,         \* hash of the configuration last read or written, <<>> if none
  configurationLocks,            \* write sections waiting for the 'configuration' lock: their hashes
  fileWrites,                    \* hashes of the configurations the save runs found or wrote, in order
  resetRun,                      \* the reset() invocation in progress and what it found
  statisticsData,                \* PerformanceStatistics.statistics.statisticsData: entry per command
  performanceObserver,           \* the PerformanceObserver of the instance: "none", "observing", "disconnected"
  displayInterval,               \* handle of the log interval of the instance: "none" or "set"
  statisticCalls,                \* per command and message type: calls of addRequestStatistic so far
  measuresEnded                  \* per name: performance measures ended since the instance exists

flagVars == <<started, starting, stopping, running>>
socketVars == <<wsConnection, detached>>
handleVars == <<heartbeatSetInterval, webSocketPingSetInterval, flushMessageBufferSetInterval>>
bufferVars == <<messageBuffer, pendingSends>>
mapVars == <<connectors, evses>>
infoVars == <<stationInfo, ocppConfiguration>>
onOpenVars == <<onOpenRuns>>
smsVars == <<sms>>
stopVars == <<stopRun, stopLog>>
fileVars == <<templateFile, connectorsConfigurationHash, evsesConfigurationHash>>
engineVars == <<requestState, callbackCalls, inboundCalls>>
reservationVars == <<reservationRuns, lastReturn>>
saveVars == <<configurationFileHash, configurationLocks, fileWrites>>
performanceVars == <<statisticsData, performanceObserver, displayInterval, statisticCalls, measuresEnded>>

vars == <<started, starting, stopping, running, wsConnection, detached,
          bootNotificationResponse, stationInfo, ocppConfiguration,
          autoReconnectRetryCount, heartbeatSetInterval, webSocketPingSetInterval,
          flushMessageBufferSetInterval, intervals, messageBuffer, pendingSends,
          connectors, evses, acceptedListeners, templateFileWatcher,
          onOpenRuns, sms, stopRun, stopLog, reconnectSleepers,
          templateFile, connectorsConfigurationHash, evsesConfigurationHash,
          flushFirings, requestState, callbackCalls, inboundCalls,
          reservationRuns, lastReturn, roundTrip, sweep,
          configurationFileHash, configurationLocks, fileWrites, resetRun,
          statisticsData, performanceObserver, displayInterval, statisticCalls, measuresEnded>>

\* ------------------------------------------------------------ helpers
EmptyMap == [x \in {} |-> NULL]

\* Maps iterate in insertion order; the maps of the model are filled in ascending key order
RECURSIVE SortedSeq(_)
SortedSeq(S) ==
  IF S = {} THEN <<>>
  ELSE LET m == CHOOSE x \in S : \A y \in S : x <= y
       IN <<m>> \o SortedSeq(S \ {m})

BagAdd(B, e) == B (+) SetToBag({e})
BagRemove(B, e) == B (-) SetToBag({e})
BagOfCopies(e, k) == IF k = 0 THEN EmptyBag ELSE [x \in {e} |-> k]

\* no PerformanceStatistics instance: initialize() calls getInstance only when
\* stationInfo.enableStatistics is true
NoPerformanceStatistics ==
  /\ statisticsData = EmptyMap
  /\ performanceObserver = "none"
  /\ displayInterval = "none"
  /\ statisticCalls = [command \in Commands |-> [messageType \in MessageTypes \cup {"other"} |-> 0]]
  /\ measuresEnded = [name \in Commands |-> 0]

\* ------------------------------------------------- station predicates
hasEvses == DOMAIN connectors = {} /\ DOMAIN evses # {}

isWebSocketConnectionOpened == wsConnection = "OPEN"

inUnknownState == bootNotificationResponse = NULL
inPendingState == bootNotificationResponse = "Pending"
inAcceptedState == bootNotificationResponse = "Accepted"
inRejectedState == bootNotificationResponse = "Rejected"

isRegisteredWith(response) == response # NULL /\ (response = "Accepted" \/ response = "Pending")
isRegistered == isRegisteredWith(bootNotificationResponse)

EvsesHolding(connectorId) == {e \in DOMAIN evses : connectorId \in DOMAIN evses[e].connectors}
EvseOf(connectorId) == CHOOSE e \in EvsesHolding(connectorId) : \A f \in EvsesHolding(connectorId) : e <= f

hasConnector(connectorId) ==
  IF hasEvses THEN EvsesHolding(connectorId) # {} ELSE connectorId \in DOMAIN connectors

\* only used where hasConnector(connectorId) holds
getConnectorStatus(connectorId) ==
  IF hasEvses
  THEN evses[EvseOf(connectorId)].connectors[connectorId]
  ELSE connectors[connectorId]

ConnectorsWith(connectorId, status) ==
  IF ~hasEvses /\ connectorId \in DOMAIN connectors
  THEN [connectors EXCEPT ![connectorId] = status] ELSE connectors

EvsesWith(connectorId, status) ==
  IF hasEvses /\ EvsesHolding(connectorId) # {}
  THEN [evses EXCEPT ![EvseOf(connectorId)].connectors[connectorId] = status] ELSE evses

isChargingStationAvailable ==
  hasConnector(0) /\ getConnectorStatus(0).availability = "Operative"

isConnectorAvailable(connectorId) ==
  connectorId > 0 /\ hasConnector(connectorId)
                  /\ getConnectorStatus(connectorId).availability = "Operative"

checkChargingStation == started \/ starting

getHeartbeatInterval == ocppConfiguration.HeartbeatInterval

\* ------------------------------------------------------------ Helpers.ts
\* faulty variant of getBootConnectorStatus: the template bootStatus outranks Unavailable
getBootConnectorStatusBootFirst(stationAvailable, connectorAvailable, connectorStatus) ==
  IF connectorStatus.status # NULL
  THEN connectorStatus.status
  ELSE IF connectorStatus.bootStatus # NULL
  THEN connectorStatus.bootStatus
  ELSE IF ~stationAvailable \/ ~connectorAvailable
  THEN "Unavailable"
  ELSE "Available"

getBootConnectorStatus(stationAvailable, connectorAvailable, connectorStatus) ==
  IF connectorStatus.status = NULL /\ (~stationAvailable \/ ~connectorAvailable)
  THEN "Unavailable"
  ELSE IF connectorStatus.status = NULL /\ connectorStatus.bootStatus # NULL
  THEN connectorStatus.bootStatus
  ELSE IF connectorStatus.status # NULL
  THEN connectorStatus.status
  ELSE "Available"

\* boot status of a connector of this station
BootConnectorStatus(connectorId) ==
  getBootConnectorStatus(isChargingStationAvailable, isConnectorAvailable(connectorId),
                         getConnectorStatus(connectorId))

\* booleans of a ConnectorStatus that may be undefined are "true", "false" or NULL
initializeConnectorStatus(connectorStatus) ==
  [connectorStatus EXCEPT !.availability = "Operative", !.transactionStarted = "false"]

initializeConnectorsMapStatus(map) ==
  [connectorId \in DOMAIN map |->
     IF connectorId = 0
     THEN [map[connectorId] EXCEPT !.availability = "Operative"]
     ELSE IF connectorId > 0 /\ map[connectorId].transactionStarted = NULL
     THEN initializeConnectorStatus(map[connectorId])
     ELSE map[connectorId]]

\* a variant of resetConnectorStatus that keeps the transaction id
resetConnectorStatusKeepsId(connectorStatus) ==
  [connectorStatus EXCEPT !.transactionStarted = "false"]

\* resetConnectorStatus(connectorStatus) for a connector status that is defined
resetConnectorStatus(connectorStatus) ==
  LET NotOfTransaction(chargingProfile) ==
        chargingProfile.transactionId # connectorStatus.transactionId
  IN [connectorStatus EXCEPT
        !.chargingProfiles =
           IF connectorStatus.transactionId # NULL /\ connectorStatus.chargingProfiles # <<>>
           THEN SelectSeq(connectorStatus.chargingProfiles, NotOfTransaction)
           ELSE <<>>,
        !.transactionStarted = "false", !.transactionId = NULL]

\* the reservation field of a ConnectorStatus that holds no reservation
NoReservation == [reservationId |-> 0, connectorId |-> 0, idTag |-> NULL, expired |-> FALSE]

\* a connector entry of a template (its bootStatus), cloned into a ConnectorStatus
TemplateConnector(bootStatus) ==
  [availability |-> NULL, bootStatus |-> bootStatus, status |-> NULL,
   transactionStarted |-> NULL, transactionId |-> NULL, transactionSetInterval |-> "none",
   reservation |-> NoReservation, chargingProfiles |-> <<>>]

\* Connectors and Evses of a template are [defined |-> BOOLEAN, map |-> the entries]
Undefined == [defined |-> FALSE, map |-> EmptyMap]
Defined(map) == [defined |-> TRUE, map |-> map]

getMaxNumberOfConnectors(templateConnectors) ==
  IF ~templateConnectors.defined THEN -1 ELSE Cardinality(DOMAIN templateConnectors.map)

getMaxNumberOfEvses(templateEvses) ==
  IF ~templateEvses.defined THEN -1 ELSE Cardinality(DOMAIN templateEvses.map)

buildConnectorsMap(templateConnectors) ==
  IF getMaxNumberOfConnectors(templateConnectors) > 0
  THEN [connectorId \in DOMAIN templateConnectors.map |->
          TemplateConnector(templateConnectors.map[connectorId])]
  ELSE EmptyMap

\* the connectors of the template EVSEs with the given ids, counted
RECURSIVE EvsesMaxNumberOfConnectors(_, _)
EvsesMaxNumberOfConnectors(templateEvses, evseIds) ==
  IF evseIds = {} THEN 0
  ELSE LET evse == CHOOSE e \in evseIds : TRUE
       IN getMaxNumberOfConnectors(Defined(templateEvses.map[evse]))
            + EvsesMaxNumberOfConnectors(templateEvses, evseIds \ {evse})

\* the templates of the model declare no numberOfConnectors
getConfiguredMaxNumberOfConnectors(stationTemplate) ==
  IF stationTemplate.Connectors.defined /\ ~stationTemplate.Evses.defined
  THEN IF 0 \in DOMAIN stationTemplate.Connectors.map
       THEN getMaxNumberOfConnectors(stationTemplate.Connectors) - 1
       ELSE getMaxNumberOfConnectors(stationTemplate.Connectors)
  ELSE IF stationTemplate.Evses.defined /\ ~stationTemplate.Connectors.defined
  THEN EvsesMaxNumberOfConnectors(stationTemplate.Evses, DOMAIN stationTemplate.Evses.map \ {0})
  ELSE 0

\* ------------------------------------------------ template and initialize()
\* ChargingStation.initializeConnectorsFromTemplate: the map and hash it leaves
initializeConnectorsFromTemplate(stationTemplate, map, hash) ==
  LET configuredMaxConnectors == getConfiguredMaxNumberOfConnectors(stationTemplate)
      templateMaxConnectors == getMaxNumberOfConnectors(stationTemplate.Connectors)
      connectorsConfigHash == <<stationTemplate.Connectors.map, configuredMaxConnectors>>
      connectorsConfigChanged == DOMAIN map # {} /\ hash # connectorsConfigHash
      ids == {connectorId \in 0..configuredMaxConnectors :
                ~(connectorId = 0 /\ (0 \notin DOMAIN stationTemplate.Connectors.map
                                      \/ ~stationTemplate.useConnectorId0))}
      built == initializeConnectorsMapStatus(
                 [connectorId \in ids |-> TemplateConnector(stationTemplate.Connectors.map[connectorId])])
  IN IF DOMAIN map = {} \/ connectorsConfigChanged
     THEN [map |-> IF templateMaxConnectors > 0 THEN built ELSE EmptyMap,
           hash |-> connectorsConfigHash]
     ELSE [map |-> map, hash |-> hash]

\* ChargingStation.initializeEvsesFromTemplate: the map and hash it leaves
initializeEvsesFromTemplate(stationTemplate, map, hash) ==
  LET evsesConfigHash == stationTemplate.Evses.map
      evsesConfigChanged == DOMAIN map # {} /\ hash # evsesConfigHash
      templateMaxEvses == getMaxNumberOfEvses(stationTemplate.Evses)
      built == [evseId \in DOMAIN stationTemplate.Evses.map |->
                  [availability |-> "Operative",
                   connectors |-> initializeConnectorsMapStatus(
                                    buildConnectorsMap(Defined(stationTemplate.Evses.map[evseId])))]]
  IN IF DOMAIN map = {} \/ evsesConfigChanged
     THEN [map |-> IF templateMaxEvses > 0 THEN built ELSE EmptyMap, hash |-> evsesConfigHash]
     ELSE [map |-> map, hash |-> hash]

\* ChargingStation.initializeConnectorsOrEvsesFromTemplate
initializeConnectorsOrEvsesFromTemplate(stationTemplate, cMap, cHash, eMap, eHash) ==
  IF stationTemplate.Connectors.defined /\ ~stationTemplate.Evses.defined
  THEN LET r == initializeConnectorsFromTemplate(stationTemplate, cMap, cHash)
       IN [connectors |-> r.map, connectorsConfigurationHash |-> r.hash,
           evses |-> eMap, evsesConfigurationHash |-> eHash, threw |-> FALSE]
  ELSE IF stationTemplate.Evses.defined /\ ~stationTemplate.Connectors.defined
  THEN LET r == initializeEvsesFromTemplate(stationTemplate, eMap, eHash)
       IN [connectors |-> cMap, connectorsConfigurationHash |-> cHash,
           evses |-> r.map, evsesConfigurationHash |-> r.hash, threw |-> FALSE]
  ELSE [connectors |-> cMap, connectorsConfigurationHash |-> cHash,
        evses |-> eMap, evsesConfigurationHash |-> eHash, threw |-> TRUE]

\* ChargingStation.getStationInfo: the fields of the station information the model reads
getStationInfo(stationTemplate) ==
  [templateHash |-> stationTemplate.templateHash,
   autoRegister |-> stationTemplate.autoRegister,
   registrationMaxRetries |-> stationTemplate.registrationMaxRetries,
   autoReconnectMaxRetries |-> stationTemplate.autoReconnectMaxRetries,
   stopTransactionsOnStopped |-> stationTemplate.stopTransactionsOnStopped,
   beginEndMeterValues |-> stationTemplate.beginEndMeterValues]

\* ChargingStation.getOcppConfiguration: the configuration keys the model reads
getOcppConfiguration(stationTemplate) ==
  [HeartbeatInterval |-> stationTemplate.HeartbeatInterval,
   WebSocketPingInterval |-> stationTemplate.WebSocketPingInterval]

Template(hash, cs, es, auto, regMax, reconnectMax, stopTx, beginEnd, hb, ping) ==
  [templateHash |-> hash, Connectors |-> cs, Evses |-> es, useConnectorId0 |-> TRUE,
   autoRegister |-> auto, registrationMaxRetries |-> regMax,
   autoReconnectMaxRetries |-> reconnectMax, stopTransactionsOnStopped |-> stopTx,
   beginEndMeterValues |-> beginEnd, HeartbeatInterval |-> hb, WebSocketPingInterval |-> ping]

\* connector and EVSE layouts of the templates; an entry is the bootStatus it declares
OneConnector == Defined([c \in 0..1 |-> NULL])
OneEvse == Defined([e \in 0..1 |-> [c \in {e} |-> NULL]])
TwoConnectors == Defined([c \in 0..2 |-> NULL])
TwoEvses == Defined([e \in 0..2 |-> [c \in {e} |-> NULL]])

\* ----------------------------------------------------------- timers
MeterIds == 1..2

TS == [heartbeatSetInterval |-> heartbeatSetInterval,
       webSocketPingSetInterval |-> webSocketPingSetInterval,
       intervals |-> intervals]

SetTS(ts) ==
  /\ heartbeatSetInterval' = ts.heartbeatSetInterval
  /\ webSocketPingSetInterval' = ts.webSocketPingSetInterval
  /\ intervals' = ts.intervals

timerVars == <<heartbeatSetInterval, webSocketPingSetInterval, intervals>>

startHeartbeat(ts) ==
  IF getHeartbeatInterval > 0 /\ ts.heartbeatSetInterval = "none"
  THEN [ts EXCEPT !.heartbeatSetInterval = "set", !.intervals.heartbeat = @ + 1]
  ELSE ts

stopHeartbeat(ts) ==
  IF ts.heartbeatSetInterval # "none"
  THEN [ts EXCEPT !.heartbeatSetInterval = "none", !.intervals.heartbeat = @ - 1]
  ELSE ts

startWebSocketPing(ts) ==
  IF ocppConfiguration.WebSocketPingInterval > 0 /\ ts.webSocketPingSetInterval = "none"
  THEN [ts EXCEPT !.webSocketPingSetInterval = "set", !.intervals.webSocketPing = @ + 1]
  ELSE ts

stopWebSocketPing(ts) ==
  IF ts.webSocketPingSetInterval # "none"
  THEN [ts EXCEPT !.webSocketPingSetInterval = "none", !.intervals.webSocketPing = @ - 1]
  ELSE ts

\* ----------------------------------------------------------- sockets
DetachedCount(d) == d.CONNECTING + d.OPEN + d.CLOSING

\* ChargingStation.closeWSConnection on the pair (wsConnection, detached)
closeWSConnection(ws, d) ==
  IF ws = "OPEN" THEN [ws |-> NULL, detached |-> [d EXCEPT !.CLOSING = @ + 1]]
  ELSE [ws |-> ws, detached |-> d]

\* ChargingStation.openWSConnection once checkChargingStation has passed
openWSConnection(closeOpened) ==
  LET c == IF closeOpened THEN closeWSConnection(wsConnection, detached)
           ELSE [ws |-> wsConnection, detached |-> detached]
  IN IF c.ws = "OPEN" THEN c
     ELSE [ws |-> "CONNECTING",
           detached |-> IF c.ws = "CONNECTING"
                        THEN [c.detached EXCEPT !.CONNECTING = @ + 1] ELSE c.detached]

\* ------------------------------------------- boot message sequence
RECURSIVE EvseConnectorIds(_)
EvseConnectorIds(evseIds) ==
  IF evseIds = <<>> THEN <<>>
  ELSE SortedSeq(DOMAIN evses[Head(evseIds)].connectors) \o EvseConnectorIds(Tail(evseIds))

\* faulty variant of SequenceConnectorIds: connector 0 is not skipped
SequenceConnectorIdsWithZero ==
  IF hasEvses
  THEN EvseConnectorIds(SortedSeq(DOMAIN evses))
  ELSE SortedSeq(DOMAIN connectors)

\* the connector ids the start and stop message sequences walk through, in order
SequenceConnectorIds ==
  IF hasEvses
  THEN EvseConnectorIds(SortedSeq({e \in DOMAIN evses : e > 0}))
  ELSE SortedSeq({c \in DOMAIN connectors : c > 0})

\* ChargingStation.flushMessageBuffer called k times in a row on socket state ws
flushMessageBuffer(ws, k) ==
  IF ws = NULL \/ k = 0 THEN pendingSends
  ELSE pendingSends (+) [x \in {[message |-> m, opened |-> ws = "OPEN"] : m \in messageBuffer} |-> k]

\* startMessageSequence from its connector loop on, for k invocations at position idx
SmsContinue(base, k, idx, ws) ==
  IF idx <= Len(SequenceConnectorIds)
  THEN /\ sms' = base (+) BagOfCopies([pc |-> "status", idx |-> idx,
                                      status |-> BootConnectorStatus(SequenceConnectorIds[idx])], k)
       /\ pendingSends' = pendingSends
  ELSE /\ sms' = base
       /\ pendingSends' = IF ws = "CONNECTING" THEN pendingSends ELSE flushMessageBuffer(ws, k)

\* startMessageSequence from startWebSocketPing on, for k invocations
SmsBody(base, k, ws) ==
  /\ SetTS(startHeartbeat(startWebSocketPing(TS)))
  /\ SmsContinue(base, k, 1, ws)

\* emit('accepted'): every once-listener registered by initialize() runs startMessageSequence
EmitAccepted(ws) ==
  /\ acceptedListeners' = 0
  /\ IF acceptedListeners = 0
     THEN UNCHANGED <<sms, pendingSends, timerVars>>
     ELSE IF stationInfo.autoRegister
     THEN /\ sms' = sms (+) BagOfCopies([pc |-> "awaitBoot", idx |-> 0, status |-> NULL],
                                        acceptedListeners)
          /\ UNCHANGED <<pendingSends, timerVars>>
     ELSE SmsBody(sms, acceptedListeners, ws)

\* ------------------------------------------------------------ onOpen
\* variables an onOpen() step can change
onOpenTouched == <<running, bootNotificationResponse, autoReconnectRetryCount, onOpenRuns,
                   sms, acceptedListeners, pendingSends, timerVars>>

\* an onOpen() invocation: where it is, its registrationRetryCount, the BootNotification
\* requests it has sent, the status of the last response, the events it has emitted
NewRun == [pc |-> "awaitBoot", registrationRetryCount |-> 0, sent |-> 1, last |-> NULL,
           emitted |-> {}]
RegisteredRun == [pc |-> "registered", registrationRetryCount |-> 0, sent |-> 0, last |-> NULL,
                  emitted |-> {"registered"}]

\* onOpen after the registration loop, up to emit('registered') or, when the station is
\* not registered, up to emit('updated')
OnOpenAfterLoop(response, run, others) ==
  /\ bootNotificationResponse' = response
  /\ IF isRegisteredWith(response)
     THEN /\ onOpenRuns' = BagAdd(others, [run EXCEPT !.pc = "registered",
                                                      !.emitted = {"registered"}])
          /\ running' = "registered"
          /\ autoReconnectRetryCount' = autoReconnectRetryCount
     ELSE /\ onOpenRuns' = BagAdd(others, [run EXCEPT !.pc = "updated"])
          /\ running' = "updated"
          /\ autoReconnectRetryCount' = 0
  /\ UNCHANGED <<sms, acceptedListeners, pendingSends, timerVars>>

\* the 'open' handler, the socket states being already updated; ws is the state of wsConnection
onOpen(ws) ==
  IF ws # "OPEN"
  THEN UNCHANGED onOpenTouched
  ELSE /\ BagCardinality(onOpenRuns) < MaxOnOpenRuns
       /\ IF ~isRegistered
          THEN /\ onOpenRuns' = BagAdd(onOpenRuns, NewRun)
               /\ UNCHANGED <<running, bootNotificationResponse, autoReconnectRetryCount,
                              sms, acceptedListeners, pendingSends, timerVars>>
          ELSE OnOpenAfterLoop(bootNotificationResponse, RegisteredRun, onOpenRuns)

\* what an onOpen() step leaves alone besides the sockets
onOpenFrame == <<started, starting, stopping, infoVars, flushMessageBufferSetInterval, messageBuffer, mapVars,
                 templateFileWatcher, stopVars, reconnectSleepers, fileVars, reservationVars, roundTrip, sweep, saveVars, resetRun, performanceVars, flushFirings, engineVars>>

\* ------------------------------------------------------------ Init
\* an inbound CALL that has not arrived: where its handling is, whether its handler
\* threw, the sendError calls made for it
NoCall == [pc |-> "none", threw |-> FALSE, errors |-> 0]

\* no reservation call ended in the last step
NoReturn == [op |-> "none", reservation |-> NoReservation, reason |-> NULL, threw |-> FALSE,
             sent |-> <<>>, statusBefore |-> NULL, arguments |-> <<>>, result |-> FALSE]

\* no addReservation/removeReservation pair is followed
NoRoundTrip == [stage |-> "none", reservation |-> NoReservation, reason |-> NULL,
                statusBefore |-> NULL]

\* removeExpiredReservations is not running: where it is, the position in the visiting
\* order, the reservations removed, the StatusNotifications sent, the connector
\* statuses it started from
NoSweep == [pc |-> "idle", idx |-> 0, removed |-> {}, sent |-> <<>>, before |-> EmptyMap]

IdleStop == [pc |-> "idle", idx |-> 0, stopTransactions |-> FALSE]

\* the station after its constructor: initialize() has filled the maps from template t
\* or from the persisted configuration
\* no reset() in progress; stopped and started are what a reset() found at its
\* initialize() and after its start()
NoReset == [pc |-> "idle", stopped |-> FALSE, started |-> FALSE]

Configured(t, cMap, cHash, eMap, eHash) ==
  /\ templateFile = t
  /\ connectors = cMap
  /\ evses = eMap
  /\ connectorsConfigurationHash = cHash
  /\ evsesConfigurationHash = eHash
  /\ stationInfo = getStationInfo(t)
  /\ ocppConfiguration = getOcppConfiguration(t)
  /\ acceptedListeners = 1
  /\ bootNotificationResponse = IF t.autoRegister THEN "Accepted" ELSE NULL
  /\ started = FALSE /\ starting = FALSE /\ stopping = FALSE
  /\ running = "none"
  /\ wsConnection = NULL
  /\ detached = [CONNECTING |-> 0, OPEN |-> 0, CLOSING |-> 0]
  /\ autoReconnectRetryCount = 0
  /\ heartbeatSetInterval = "none"
  /\ webSocketPingSetInterval = "none"
  /\ flushMessageBufferSetInterval = "none"
  /\ intervals = [heartbeat |-> 0, webSocketPing |-> 0, flushMessageBuffer |-> 0,
                  meterValues |-> [c \in MeterIds |-> 0]]
  /\ messageBuffer = {}
  /\ pendingSends = EmptyBag
  /\ templateFileWatcher = FALSE
  /\ onOpenRuns = EmptyBag
  /\ sms = EmptyBag
  /\ stopRun = IdleStop
  /\ stopLog = <<>>
  /\ reconnectSleepers = 0
  /\ flushFirings = 0
  /\ requestState = [id \in RequestIds |-> "unused"]
  /\ callbackCalls = [id \in RequestIds |-> 0]
  /\ inboundCalls = [id \in CallIds |-> NoCall]
  /\ reservationRuns = EmptyBag
  /\ lastReturn = NoReturn
  /\ roundTrip = NoRoundTrip
  /\ sweep = NoSweep
  /\ configurationFileHash = <<>>
  /\ configurationLocks = <<>>
  /\ fileWrites = <<>>
  /\ resetRun = NoReset
  /\ NoPerformanceStatistics

\* construction with no persisted configuration: initializeConnectorsOrEvsesFromTemplate
Constructed(t) ==
  LET r == initializeConnectorsOrEvsesFromTemplate(t, EmptyMap, <<>>, EmptyMap, <<>>)
  IN /\ ~r.threw
     /\ Configured(t, r.connectors, r.connectorsConfigurationHash,
                   r.evses, r.evsesConfigurationHash)

\* construction with a persisted configuration that holds connectorsStatus:
\* initializeConnectorsOrEvsesFromFile clones the persisted statuses
ConstructedFromFile(t, connectorsStatus) ==
  Configured(t, connectorsStatus, <<>>, EmptyMap, <<>>)

\* templates of the station life cycle: one connector, every kind of reconnect bound
StationTemplates ==
  { Template("h1", OneConnector, Undefined, FALSE, 1, reconnectMax, FALSE, FALSE, 60, 60) :
      reconnectMax \in ReconnectRetriesChoices }

Init == \E t \in StationTemplates : Constructed(t)

\* ------------------------------------------------------------ start()
\* start() up to emit('started'): the listeners observe the state this action leaves
Start ==
  /\ running = "none"
  /\ ~started /\ ~starting
  /\ LET o == openWSConnection(FALSE)
     IN /\ DetachedCount(o.detached) <= MaxDetached
        /\ wsConnection' = o.ws
        /\ detached' = o.detached
  /\ starting' = TRUE
  /\ templateFileWatcher' = TRUE
  /\ started' = TRUE
  /\ running' = "started"
  /\ UNCHANGED <<stopping, bootNotificationResponse, infoVars, autoReconnectRetryCount,
                 handleVars, intervals, bufferVars, mapVars, acceptedListeners,
                 onOpenVars, smsVars, stopVars, reconnectSleepers, fileVars, reservationVars, roundTrip, sweep, saveVars, resetRun, performanceVars, flushFirings, engineVars>>

\* start() after emit('started')
StartEmitted ==
  /\ running = "started"
  /\ starting' = FALSE
  /\ running' = "none"
  /\ UNCHANGED <<started, stopping, socketVars, bootNotificationResponse, infoVars,
                 autoReconnectRetryCount, handleVars, intervals, bufferVars, mapVars,
                 acceptedListeners, templateFileWatcher, onOpenVars, smsVars, stopVars,
                 reconnectSleepers, fileVars, reservationVars, roundTrip, sweep, saveVars, resetRun, performanceVars, flushFirings, engineVars>>

\* ------------------------------------------------- reconnect, onClose
\* what an onClose() step can change besides the sockets
onCloseTouched == <<autoReconnectRetryCount, reconnectSleepers, timerVars>>
onCloseFrame == <<flagVars, bootNotificationResponse, infoVars, flushMessageBufferSetInterval,
                  bufferVars, mapVars, acceptedListeners, templateFileWatcher, onOpenVars,
                  smsVars, stopVars, fileVars, reservationVars, roundTrip, sweep, saveVars, resetRun, performanceVars, flushFirings, engineVars>>

\* faulty variant of reconnect(): the retry bound is tested with <= instead of <
reconnectOffByOne ==
  /\ SetTS(stopHeartbeat(stopWebSocketPing(TS)))
  /\ IF autoReconnectRetryCount <= stationInfo.autoReconnectMaxRetries
        \/ stationInfo.autoReconnectMaxRetries = -1
     THEN /\ autoReconnectRetryCount < MaxReconnectCount
          /\ reconnectSleepers < MaxSleepers
          /\ autoReconnectRetryCount' = autoReconnectRetryCount + 1
          /\ reconnectSleepers' = reconnectSleepers + 1
     ELSE UNCHANGED <<autoReconnectRetryCount, reconnectSleepers>>

\* reconnect() up to its sleep
reconnect ==
  /\ SetTS(stopHeartbeat(stopWebSocketPing(TS)))
  /\ IF autoReconnectRetryCount < stationInfo.autoReconnectMaxRetries
        \/ stationInfo.autoReconnectMaxRetries = -1
     THEN /\ autoReconnectRetryCount < MaxReconnectCount
          /\ reconnectSleepers < MaxSleepers
          /\ autoReconnectRetryCount' = autoReconnectRetryCount + 1
          /\ reconnectSleepers' = reconnectSleepers + 1
     ELSE UNCHANGED <<autoReconnectRetryCount, reconnectSleepers>>

\* the 'close' handler; code is "normal" (1000, 1005) or "abnormal"
onClose(code) ==
  IF code = "normal"
  THEN /\ autoReconnectRetryCount' = 0
       /\ UNCHANGED <<reconnectSleepers, timerVars>>
  ELSE IF started
  THEN reconnect
  ELSE UNCHANGED onCloseTouched

\* reconnect() after its sleep: openWSConnection(..., { closeOpened: true })
ReconnectWake ==
  /\ running = "none"
  /\ reconnectSleepers > 0
  /\ reconnectSleepers' = reconnectSleepers - 1
  /\ IF checkChargingStation
     THEN LET o == openWSConnection(TRUE)
          IN /\ DetachedCount(o.detached) <= MaxDetached
             /\ wsConnection' = o.ws
             /\ detached' = o.detached
     ELSE UNCHANGED socketVars
  /\ UNCHANGED <<flagVars, bootNotificationResponse, infoVars, autoReconnectRetryCount,
                 handleVars, intervals, bufferVars, mapVars, acceptedListeners,
                 templateFileWatcher, onOpenVars, smsVars, stopVars, fileVars, reservationVars, roundTrip, sweep, saveVars, resetRun, performanceVars, flushFirings, engineVars>>

\* ------------------------------------------------------ socket events
\* the socket of wsConnection opens
WsOpen ==
  /\ running = "none"
  /\ wsConnection = "CONNECTING"
  /\ wsConnection' = "OPEN"
  /\ detached' = detached
  /\ onOpen("OPEN")
  /\ UNCHANGED onOpenFrame

\* the socket of wsConnection closes or fails to connect
WsClose(code) ==
  /\ running = "none"
  /\ \/ wsConnection = "OPEN"
     \/ wsConnection = "CONNECTING" /\ code = "abnormal"
  /\ wsConnection' = "CLOSED"
  /\ detached' = detached
  /\ onClose(code)
  /\ UNCHANGED onCloseFrame

\* a socket wsConnection no longer refers to opens
DetachedOpen ==
  /\ running = "none"
  /\ detached.CONNECTING > 0
  /\ detached' = [detached EXCEPT !.CONNECTING = @ - 1, !.OPEN = @ + 1]
  /\ wsConnection' = wsConnection
  /\ onOpen(wsConnection)
  /\ UNCHANGED onOpenFrame

\* a socket wsConnection no longer refers to closes
DetachedClose(state, code) ==
  /\ running = "none"
  /\ detached[state] > 0
  /\ state = "CONNECTING" => code = "abnormal"
  /\ detached' = [detached EXCEPT ![state] = @ - 1]
  /\ wsConnection' = wsConnection
  /\ onClose(code)
  /\ UNCHANGED onCloseFrame

\* ------------------------------------------ registration loop of onOpen
\* the BootNotification request of a registration loop is answered
BootNotificationResult(run, status) ==
  /\ running = "none"
  /\ run.pc = "awaitBoot"
  /\ IF ~isRegisteredWith(status)
     THEN /\ bootNotificationResponse' = status
          /\ onOpenRuns' = BagAdd(BagRemove(onOpenRuns, run),
               [run EXCEPT !.pc = "sleep", !.last = status,
                           !.registrationRetryCount =
                              IF stationInfo.registrationMaxRetries # -1 THEN @ + 1 ELSE @])
          /\ UNCHANGED <<running, autoReconnectRetryCount, sms,
                         acceptedListeners, pendingSends, timerVars>>
     ELSE OnOpenAfterLoop(status, [run EXCEPT !.last = status], BagRemove(onOpenRuns, run))
  /\ UNCHANGED <<socketVars, onOpenFrame>>

\* the BootNotification request of a registration loop is rejected: onOpen() throws
BootNotificationError(run) ==
  /\ running = "none"
  /\ run.pc = "awaitBoot"
  /\ onOpenRuns' = BagRemove(onOpenRuns, run)
  /\ UNCHANGED <<running, bootNotificationResponse, autoReconnectRetryCount, sms,
                 acceptedListeners, pendingSends, timerVars, socketVars, onOpenFrame>>

\* faulty variant of RegistrationWake: the retry bound is tested with < instead of <=
RegistrationWakeOffByOne(run) ==
  /\ running = "none"
  /\ run.pc = "sleep"
  /\ IF ~isRegistered /\ (run.registrationRetryCount < stationInfo.registrationMaxRetries
                          \/ stationInfo.registrationMaxRetries = -1)
     THEN /\ run.sent < MaxBootSent
          /\ onOpenRuns' = BagAdd(BagRemove(onOpenRuns, run),
                                  [run EXCEPT !.pc = "awaitBoot", !.sent = @ + 1])
          /\ UNCHANGED <<running, bootNotificationResponse, autoReconnectRetryCount,
                         sms, acceptedListeners, pendingSends, timerVars>>
     ELSE OnOpenAfterLoop(bootNotificationResponse, run, BagRemove(onOpenRuns, run))
  /\ UNCHANGED <<socketVars, onOpenFrame>>

\* the sleep of a registration loop ends: test the loop condition
RegistrationWake(run) ==
  /\ running = "none"
  /\ run.pc = "sleep"
  /\ IF ~isRegistered /\ (run.registrationRetryCount <= stationInfo.registrationMaxRetries
                          \/ stationInfo.registrationMaxRetries = -1)
     THEN /\ run.sent < MaxBootSent
          /\ onOpenRuns' = BagAdd(BagRemove(onOpenRuns, run),
                                  [run EXCEPT !.pc = "awaitBoot", !.sent = @ + 1])
          /\ UNCHANGED <<running, bootNotificationResponse, autoReconnectRetryCount,
                         sms, acceptedListeners, pendingSends, timerVars>>
     ELSE OnOpenAfterLoop(bootNotificationResponse, run, BagRemove(onOpenRuns, run))
  /\ UNCHANGED <<socketVars, onOpenFrame>>

\* onOpen after emit('registered'): emit('accepted') when accepted, reset the reconnect
\* counter, up to emit('updated')
OnOpenRegistered(run) ==
  /\ running = "registered"
  /\ run.pc = "registered"
  /\ IF inAcceptedState
     THEN /\ EmitAccepted(wsConnection)
          /\ BagCardinality(sms') <= MaxSmsRuns
          /\ onOpenRuns' = BagAdd(BagRemove(onOpenRuns, run),
                                  [run EXCEPT !.pc = "updated", !.emitted = @ \cup {"accepted"}])
     ELSE /\ UNCHANGED <<sms, acceptedListeners, pendingSends, timerVars>>
          /\ onOpenRuns' = BagAdd(BagRemove(onOpenRuns, run), [run EXCEPT !.pc = "updated"])
  /\ autoReconnectRetryCount' = 0
  /\ running' = "updated"
  /\ UNCHANGED <<bootNotificationResponse, socketVars, onOpenFrame>>

\* onOpen returns after emit('updated')
OnOpenUpdated(run) ==
  /\ running = "updated"
  /\ run.pc = "updated"
  /\ onOpenRuns' = BagRemove(onOpenRuns, run)
  /\ running' = "none"
  /\ UNCHANGED <<bootNotificationResponse, autoReconnectRetryCount, sms,
                 acceptedListeners, pendingSends, timerVars, socketVars, onOpenFrame>>

\* ------------------------------------- startMessageSequence after its awaits
\* what a startMessageSequence() step leaves alone besides the maps and timers
smsFrame == <<flagVars, socketVars, bootNotificationResponse, infoVars, autoReconnectRetryCount,
              flushMessageBufferSetInterval, messageBuffer, acceptedListeners,
              templateFileWatcher, onOpenVars, stopVars, reconnectSleepers, fileVars, reservationVars, roundTrip, sweep, saveVars, resetRun, performanceVars, flushFirings, engineVars>>

\* the BootNotification request of an auto-registered station is answered
SmsBootNotificationResult(run) ==
  /\ running = "none"
  /\ run.pc = "awaitBoot"
  /\ SmsBody(BagRemove(sms, run), 1, wsConnection)
  /\ BagCardinality(pendingSends') <= MaxPendingSends
  /\ UNCHANGED <<mapVars, smsFrame>>

\* sendAndSetConnectorStatus returns: the boot status is set, the loop goes on
SmsStatusNotificationResult(run) ==
  /\ running = "none"
  /\ run.pc = "status"
  /\ LET connectorId == SequenceConnectorIds[run.idx]
     IN /\ run.idx <= Len(SequenceConnectorIds)
        /\ hasConnector(connectorId)
        /\ connectors' = ConnectorsWith(connectorId,
                            [getConnectorStatus(connectorId) EXCEPT !.status = run.status])
        /\ evses' = EvsesWith(connectorId,
                            [getConnectorStatus(connectorId) EXCEPT !.status = run.status])
  /\ SmsContinue(BagRemove(sms, run), 1, run.idx + 1, wsConnection)
  /\ BagCardinality(pendingSends') <= MaxPendingSends
  /\ UNCHANGED <<timerVars, smsFrame>>

\* a request of startMessageSequence is rejected: the sequence is abandoned
SmsRequestError(run) ==
  /\ running = "none"
  /\ sms' = BagRemove(sms, run)
  /\ UNCHANGED <<pendingSends, timerVars, mapVars, smsFrame>>

\* ------------------------------------------------- public timer methods
timerFrame == <<flagVars, socketVars, bootNotificationResponse, infoVars, autoReconnectRetryCount,
                flushMessageBufferSetInterval, bufferVars, acceptedListeners,
                templateFileWatcher, onOpenVars, smsVars, stopVars, reconnectSleepers, fileVars, reservationVars, roundTrip, sweep, saveVars, resetRun, performanceVars, flushFirings, engineVars>>

StartHeartbeat ==
  /\ running = "none"
  /\ SetTS(startHeartbeat(TS))
  /\ UNCHANGED <<mapVars, timerFrame>>

RestartHeartbeat ==
  /\ running = "none"
  /\ SetTS(startHeartbeat(stopHeartbeat(TS)))
  /\ UNCHANGED <<mapVars, timerFrame>>

RestartWebSocketPing ==
  /\ running = "none"
  /\ SetTS(startWebSocketPing(stopWebSocketPing(TS)))
  /\ UNCHANGED <<mapVars, timerFrame>>

\* startMeterValues(connectorId, interval) when it gets to setInterval
StartMeterValues(connectorId, interval) ==
  /\ running = "none"
  /\ connectorId # 0
  /\ hasConnector(connectorId)
  /\ LET connectorStatus == getConnectorStatus(connectorId)
     IN /\ connectorStatus.transactionStarted # "false"
        /\ ~(connectorStatus.transactionStarted = "true" /\ connectorStatus.transactionId = NULL)
        /\ interval > 0
        /\ intervals.meterValues[connectorId] < MaxMeterTimers
        /\ intervals' = [intervals EXCEPT !.meterValues[connectorId] = @ + 1]
        /\ connectors' = ConnectorsWith(connectorId,
                            [connectorStatus EXCEPT !.transactionSetInterval = "set"])
        /\ evses' = EvsesWith(connectorId,
                            [connectorStatus EXCEPT !.transactionSetInterval = "set"])
  /\ UNCHANGED <<heartbeatSetInterval, webSocketPingSetInterval, timerFrame>>

\* stopMeterValues(connectorId) when the connector holds a timer handle
StopMeterValues(connectorId) ==
  /\ running = "none"
  /\ hasConnector(connectorId)
  /\ LET connectorStatus == getConnectorStatus(connectorId)
     IN /\ connectorStatus.transactionSetInterval # "none"
        /\ intervals' = IF connectorStatus.transactionSetInterval = "set"
                        THEN [intervals EXCEPT !.meterValues[connectorId] = @ - 1]
                        ELSE intervals
        /\ connectors' = ConnectorsWith(connectorId,
                            [connectorStatus EXCEPT !.transactionSetInterval = "cleared"])
        /\ evses' = EvsesWith(connectorId,
                            [connectorStatus EXCEPT !.transactionSetInterval = "cleared"])
  /\ UNCHANGED <<heartbeatSetInterval, webSocketPingSetInterval, timerFrame>>

\* a StartTransaction response is accepted for the connector
TransactionStarted(connectorId) ==
  /\ running = "none"
  /\ connectorId > 0
  /\ hasConnector(connectorId)
  /\ getConnectorStatus(connectorId).transactionStarted = "false"
  /\ LET connectorStatus == [getConnectorStatus(connectorId) EXCEPT
                               !.transactionStarted = "true", !.transactionId = "tx"]
     IN /\ connectors' = ConnectorsWith(connectorId, connectorStatus)
        /\ evses' = EvsesWith(connectorId, connectorStatus)
  /\ UNCHANGED <<timerVars, timerFrame>>

\* resetConnectorStatus(getConnectorStatus(connectorId)), as the end of a
\* transaction calls it; it returns at once for a connector the station lacks
ResetConnectorStatus(connectorId) ==
  /\ running = "none"
  /\ hasConnector(connectorId)
  /\ LET connectorStatus == resetConnectorStatus(getConnectorStatus(connectorId))
     IN /\ connectors' = ConnectorsWith(connectorId, connectorStatus)
        /\ evses' = EvsesWith(connectorId, connectorStatus)
  /\ UNCHANGED <<timerVars, timerFrame>>

\* ------------------------------------------------------ message buffer
bufferFrame == <<flagVars, socketVars, bootNotificationResponse, infoVars,
                 autoReconnectRetryCount, heartbeatSetInterval, webSocketPingSetInterval,
                 mapVars, acceptedListeners, templateFileWatcher, onOpenVars, smsVars,
                 stopVars, reconnectSleepers, fileVars, reservationVars, roundTrip, sweep, saveVars, resetRun, performanceVars, engineVars>>

\* bufferMessage(message): add the frame, setIntervalFlushMessageBuffer()
BufferMessage(message) ==
  /\ running = "none"
  /\ messageBuffer' = messageBuffer \cup {message}
  /\ IF flushMessageBufferSetInterval = "none"
     THEN /\ flushMessageBufferSetInterval' = "set"
          /\ intervals' = [intervals EXCEPT !.flushMessageBuffer = @ + 1]
     ELSE UNCHANGED <<flushMessageBufferSetInterval, intervals>>
  /\ UNCHANGED <<pendingSends, bufferFrame, flushFirings>>

\* faulty variant of FlushTimerFire: the timer is cleared whatever the buffer holds
FlushTimerFireAlwaysClears ==
  /\ running = "none"
  /\ intervals.flushMessageBuffer > 0
  /\ pendingSends' = IF isWebSocketConnectionOpened /\ inAcceptedState
                     THEN flushMessageBuffer(wsConnection, 1) ELSE pendingSends
  /\ BagCardinality(pendingSends') <= MaxPendingSends
  /\ IF flushMessageBufferSetInterval # "none"
     THEN /\ flushMessageBufferSetInterval' = "none"
          /\ intervals' = [intervals EXCEPT !.flushMessageBuffer = @ - 1]
     ELSE UNCHANGED <<flushMessageBufferSetInterval, intervals>>
  /\ UNCHANGED <<messageBuffer, bufferFrame, flushFirings>>

\* the interval callback of setIntervalFlushMessageBuffer
FlushTimerCallback ==
  /\ running = "none"
  /\ intervals.flushMessageBuffer > 0
  /\ pendingSends' = IF isWebSocketConnectionOpened /\ inAcceptedState
                     THEN flushMessageBuffer(wsConnection, 1) ELSE pendingSends
  /\ BagCardinality(pendingSends') <= MaxPendingSends
  /\ IF messageBuffer = {} /\ flushMessageBufferSetInterval # "none"
     THEN /\ flushMessageBufferSetInterval' = "none"
          /\ intervals' = [intervals EXCEPT !.flushMessageBuffer = @ - 1]
     ELSE UNCHANGED <<flushMessageBufferSetInterval, intervals>>
  /\ UNCHANGED <<messageBuffer, bufferFrame>>

\* the interval callback of setIntervalFlushMessageBuffer fires
FlushTimerFire == FlushTimerCallback /\ UNCHANGED flushFirings

\* faulty variant of SendCallback: the frame is deleted when the send failed
SendCallbackDeletesOnError(send, error) ==
  /\ running = "none"
  /\ BagIn(send, pendingSends)
  /\ ~send.opened => error
  /\ pendingSends' = BagRemove(pendingSends, send)
  /\ messageBuffer' = IF error THEN messageBuffer \ {send.message} ELSE messageBuffer
  /\ UNCHANGED <<flushMessageBufferSetInterval, intervals, bufferFrame, flushFirings>>

\* the callback of a wsConnection.send of flushMessageBuffer is called
SendCallback(send, error) ==
  /\ running = "none"
  /\ BagIn(send, pendingSends)
  /\ ~send.opened => error
  /\ pendingSends' = BagRemove(pendingSends, send)
  /\ messageBuffer' = IF error THEN messageBuffer ELSE messageBuffer \ {send.message}
  /\ UNCHANGED <<flushMessageBufferSetInterval, intervals, bufferFrame, flushFirings>>

\* --------------------------------------------------------------- stop()
\* what a stop() step leaves alone
stopCallFrame == <<starting, infoVars, autoReconnectRetryCount,
                   flushMessageBufferSetInterval, bufferVars, acceptedListeners, onOpenVars,
                   smsVars, reconnectSleepers, fileVars, reservationVars, roundTrip, sweep,
                   saveVars, flushFirings, engineVars, performanceVars>>
stopFrame == <<stopCallFrame, resetRun>>

\* positions of the connector loops that have a transaction to stop, from position idx on
RunningTransactionsFrom(idx) ==
  {i \in idx..Len(SequenceConnectorIds) :
     getConnectorStatus(SequenceConnectorIds[i]).transactionStarted = "true"}

\* stopTransactionOnConnector: its first request
StopTransactionFirstRequest == IF stationInfo.beginEndMeterValues THEN "MeterValues" ELSE "StopTransaction"

\* stop() from "this.closeWSConnection()" to emit('stopped')
StopFinish(log) ==
  LET c == closeWSConnection(wsConnection, detached)
  IN /\ DetachedCount(c.detached) <= MaxDetached
     /\ wsConnection' = c.ws
     /\ detached' = c.detached
     /\ templateFileWatcher' = FALSE
     /\ bootNotificationResponse' = NULL
     /\ started' = FALSE
     /\ stopRun' = IdleStop
     /\ stopLog' = log \o << <<"closeWSConnection", 0>>, <<"started = false", 0>>,
                            <<"saveConfiguration", 0>>, <<"stopped", 0>> >>
     /\ running' = "stopped"

\* stopMessageSequence from its StatusNotification loop on, at position idx
StopStatusFrom(idx, log, stopTransactions) ==
  IF idx <= Len(SequenceConnectorIds)
  THEN /\ stopRun' = [pc |-> "StatusNotification", idx |-> idx,
                      stopTransactions |-> stopTransactions]
       /\ stopLog' = Append(log, <<"StatusNotification", SequenceConnectorIds[idx]>>)
       /\ UNCHANGED <<started, running, socketVars, bootNotificationResponse,
                      templateFileWatcher>>
  ELSE StopFinish(log)

\* stopMessageSequence from stopRunningTransactions on, at position idx of its loop
StopTransactionsFrom(idx, log, stopTransactions) ==
  IF stopTransactions /\ RunningTransactionsFrom(idx) # {}
  THEN LET i == CHOOSE j \in RunningTransactionsFrom(idx) :
                   \A k \in RunningTransactionsFrom(idx) : j <= k
       IN /\ stopRun' = [pc |-> StopTransactionFirstRequest, idx |-> i,
                         stopTransactions |-> stopTransactions]
          /\ stopLog' = Append(log, <<StopTransactionFirstRequest, SequenceConnectorIds[i]>>)
          /\ UNCHANGED <<started, running, socketVars, bootNotificationResponse,
                         templateFileWatcher>>
  ELSE StopStatusFrom(1, log, stopTransactions)

\* stop() on a started station, up to the first await of stopMessageSequence
\* stop() of a started station that is not stopping, up to its first await
StopCall ==
  /\ running = "none"
  /\ started /\ ~stopping
  /\ stopping' = TRUE
  /\ SetTS(stopHeartbeat(stopWebSocketPing(TS)))
  /\ StopTransactionsFrom(1, <<>>, stationInfo.stopTransactionsOnStopped)
  /\ UNCHANGED <<mapVars, stopCallFrame>>

\* stop() called by another caller than reset()
Stop == StopCall /\ UNCHANGED resetRun

\* the transaction end MeterValues request is answered: StopTransaction is requested
StopMeterValuesResult ==
  /\ running = "none"
  /\ stopRun.pc = "MeterValues"
  /\ stopRun' = [stopRun EXCEPT !.pc = "StopTransaction"]
  /\ stopLog' = Append(stopLog, <<"StopTransaction", SequenceConnectorIds[stopRun.idx]>>)
  /\ UNCHANGED <<started, stopping, running, socketVars, bootNotificationResponse,
                 timerVars, mapVars, templateFileWatcher, stopFrame>>

\* a StopTransaction request is answered: the loop of stopRunningTransactions goes on
StopTransactionResult ==
  /\ running = "none"
  /\ stopRun.pc = "StopTransaction"
  /\ StopTransactionsFrom(stopRun.idx + 1, stopLog, stopRun.stopTransactions)
  /\ UNCHANGED <<stopping, timerVars, mapVars, stopFrame>>

\* a StatusNotification(Unavailable) request is answered: the status is deleted
StopStatusNotificationResult ==
  /\ running = "none"
  /\ stopRun.pc = "StatusNotification"
  /\ LET connectorId == SequenceConnectorIds[stopRun.idx]
     IN /\ connectors' = ConnectorsWith(connectorId,
                            [getConnectorStatus(connectorId) EXCEPT !.status = NULL])
        /\ evses' = EvsesWith(connectorId,
                            [getConnectorStatus(connectorId) EXCEPT !.status = NULL])
  /\ StopStatusFrom(stopRun.idx + 1, stopLog, stopRun.stopTransactions)
  /\ UNCHANGED <<stopping, timerVars, stopFrame>>

\* a request of the stop message sequence is rejected: stop() throws
\* a request of stop() is rejected: stop() ends with that error
StopRequestErrorCall ==
  /\ running = "none"
  /\ stopRun.pc # "idle"
  /\ stopRun' = IdleStop
  /\ stopLog' = <<>>
  /\ UNCHANGED <<started, stopping, running, socketVars, bootNotificationResponse,
                 timerVars, mapVars, templateFileWatcher, stopCallFrame>>

StopRequestError == StopRequestErrorCall /\ UNCHANGED resetRun

\* stop() after emit('stopped')
\* the listeners of 'stopped' have run: stop() returns
StopEmittedCall ==
  /\ running = "stopped"
  /\ stopping' = FALSE
  /\ running' = "none"
  /\ stopLog' = <<>>
  /\ UNCHANGED <<started, socketVars, bootNotificationResponse, timerVars, mapVars,
                 templateFileWatcher, stopRun, stopCallFrame>>

StopEmitted == StopEmittedCall /\ UNCHANGED resetRun

\* ------------------------------------------------- template file reload
\* the template file is written with content t: the watcher fires, initialize() runs again
TemplateReload(t) ==
  /\ running = "none"
  /\ templateFileWatcher
  /\ acceptedListeners < MaxListeners
  /\ templateFile' = t
  /\ LET r == initializeConnectorsOrEvsesFromTemplate(t, connectors,
                 connectorsConfigurationHash, evses, evsesConfigurationHash)
     IN /\ ~r.threw
        /\ connectors' = r.connectors
        /\ evses' = r.evses
        /\ connectorsConfigurationHash' = r.connectorsConfigurationHash
        /\ evsesConfigurationHash' = r.evsesConfigurationHash
  /\ stationInfo' = getStationInfo(t)
  /\ ocppConfiguration' = getOcppConfiguration(t)
  /\ acceptedListeners' = acceptedListeners + 1
  /\ bootNotificationResponse' = IF t.autoRegister THEN "Accepted"
                                 ELSE bootNotificationResponse
  /\ UNCHANGED <<flagVars, socketVars, autoReconnectRetryCount, handleVars, intervals,
                 bufferVars, templateFileWatcher, onOpenVars, smsVars, stopVars,
                 reconnectSleepers, flushFirings, engineVars, reservationVars, roundTrip, sweep, saveVars, resetRun, performanceVars>>

\* ------------------------------------------------- next-state relations
\* start(), the socket events and reconnect()
Connection ==
  \/ Start
  \/ StartEmitted
  \/ WsOpen
  \/ \E code \in {"normal", "abnormal"} : WsClose(code)
  \/ ReconnectWake

\* the sockets wsConnection no longer refers to
Detached ==
  \/ DetachedOpen
  \/ \E state \in {"CONNECTING", "OPEN", "CLOSING"}, code \in {"normal", "abnormal"} :
       DetachedClose(state, code)

\* onOpen() after its first await
Registration ==
  \/ \E run \in BagToSet(onOpenRuns), status \in RegistrationStatus :
       BootNotificationResult(run, status)
  \/ \E run \in BagToSet(onOpenRuns) : BootNotificationError(run)
  \/ \E run \in BagToSet(onOpenRuns) : RegistrationWake(run)
  \/ \E run \in BagToSet(onOpenRuns) : OnOpenRegistered(run)
  \/ \E run \in BagToSet(onOpenRuns) : OnOpenUpdated(run)

\* startMessageSequence() after its first await
BootSequence ==
  \/ \E run \in BagToSet(sms) : SmsBootNotificationResult(run)
  \/ \E run \in BagToSet(sms) : SmsStatusNotificationResult(run)
  \/ \E run \in BagToSet(sms) : SmsRequestError(run)

\* stop() on a station without running transactions
Stopping ==
  \/ Stop
  \/ StopStatusNotificationResult
  \/ StopRequestError
  \/ StopEmitted

\* stopRunningTransactions() after its first await
StoppingTransactions ==
  \/ StopMeterValuesResult
  \/ StopTransactionResult

\* the public timer methods and the start of a transaction
Timers ==
  \/ StartHeartbeat
  \/ RestartHeartbeat
  \/ RestartWebSocketPing
  \/ \E connectorId \in MeterIds, interval \in IntervalChoices :
       StartMeterValues(connectorId, interval)
  \/ \E connectorId \in MeterIds : StopMeterValues(connectorId)
  \/ \E connectorId \in MeterIds : TransactionStarted(connectorId)

\* the message buffer and its flush timer
Buffer ==
  \/ \E message \in Messages : BufferMessage(message)
  \/ FlushTimerFire
  \/ \E send \in BagToSet(pendingSends), error \in BOOLEAN : SendCallback(send, error)

\* the life cycle of a station whose template file is not rewritten
Next ==
  \/ Connection
  \/ Detached
  \/ Registration
  \/ \E run \in BagToSet(sms) : SmsStatusNotificationResult(run)
  \/ \E run \in BagToSet(sms) : SmsRequestError(run)
  \/ Stopping

Spec == Init /\ [][Next]_vars

\* ------------------------------------------------------- registration
\* templates of the registration runs: every kind of registration bound, no reconnection
RegistrationTemplates ==
  { Template("h1", OneConnector, Undefined, auto, regMax, 0, FALSE, FALSE, 60, 60) :
      auto \in BOOLEAN, regMax \in MaxRetriesChoices }

InitRegistration == \E t \in RegistrationTemplates : Constructed(t)

\* start, open, register, boot, close, stop, start again
NextRegistration ==
  \/ Start
  \/ StartEmitted
  \/ WsOpen
  \/ \E code \in {"normal", "abnormal"} : WsClose(code)
  \/ Detached
  \/ Registration
  \/ BootSequence
  \/ Stopping

SpecRegistration == InitRegistration /\ [][NextRegistration]_vars

\* ------------------------------------------------------------- timers
\* a station that reconnects once, its timer methods called at any time
InitTimers ==
  Constructed(Template("h1", OneConnector, Undefined, FALSE, 1, 1, FALSE, FALSE, 60, 60))

NextTimers ==
  \/ Connection
  \/ Detached
  \/ Registration
  \/ \E run \in BagToSet(sms) : SmsStatusNotificationResult(run)
  \/ \E run \in BagToSet(sms) : SmsRequestError(run)
  \/ Stopping
  \/ Timers

SpecTimers == InitTimers /\ [][NextTimers]_vars

\* ------------------------------------------------------------- buffer
\* a station that does not reconnect, frames buffered at any time
InitBuffer ==
  Constructed(Template("h1", OneConnector, Undefined, FALSE, 1, 0, FALSE, FALSE, 60, 60))

NextBuffer ==
  \/ Start
  \/ StartEmitted
  \/ WsOpen
  \/ \E code \in {"normal", "abnormal"} : WsClose(code)
  \/ Detached
  \/ Registration
  \/ \E run \in BagToSet(sms) : SmsStatusNotificationResult(run)
  \/ \E run \in BagToSet(sms) : SmsRequestError(run)
  \/ Stopping
  \/ Buffer

SpecBuffer == InitBuffer /\ [][NextBuffer]_vars

\* --------------------------------------------------------------- stop
\* templates of the stop sequence: two connectors or two EVSEs above id 0, transactions
\* stopped or not, with or without the transaction end meter values
StopTemplates ==
  { Template("h1", l[1], l[2], FALSE, 1, 0, stopTx, beginEnd, 60, 60) :
      l \in {<<TwoConnectors, Undefined>>, <<Undefined, TwoEvses>>},
      stopTx \in BOOLEAN, beginEnd \in BOOLEAN }

InitStop == \E t \in StopTemplates : Constructed(t)

\* start, open, register, boot; transactions start; stop
NextStop ==
  \/ Start
  \/ StartEmitted
  \/ WsOpen
  \/ Registration
  \/ \E run \in BagToSet(sms) : SmsStatusNotificationResult(run)
  \/ \E run \in BagToSet(sms) : SmsRequestError(run)
  \/ \E connectorId \in MeterIds : TransactionStarted(connectorId)
  \/ Stopping
  \/ StoppingTransactions

SpecStop == InitStop /\ [][NextStop]_vars

\* --------------------------------------------------------- initialize
\* contents the template file can be given: connectors, other connectors, EVSEs
ReloadTemplates ==
  { Template("h1", OneConnector, Undefined, FALSE, 1, 0, FALSE, FALSE, 60, 60),
    Template("h2", TwoConnectors, Undefined, FALSE, 1, 0, FALSE, FALSE, 60, 60),
    Template("h3", Undefined, OneEvse, FALSE, 1, 0, FALSE, FALSE, 60, 60) }

InitInitialize == \E t \in ReloadTemplates : Constructed(t)

\* a started station whose template file is rewritten, the requests of its boot message
\* sequences staying unanswered
NextInitialize ==
  \/ Start
  \/ StartEmitted
  \/ WsOpen
  \/ \E code \in {"normal", "abnormal"} : WsClose(code)
  \/ Registration
  \/ \E t \in ReloadTemplates : TemplateReload(t)

SpecInitialize == InitInitialize /\ [][NextInitialize]_vars

\* ----------------------------------------------- boot connector status
\* persisted connector statuses: with or without connector 0, every availability, with
\* or without a template bootStatus, with or without a persisted status
PersistedConnectorStatus(connectorId) ==
  IF connectorId = 0
  THEN { [TemplateConnector(NULL) EXCEPT !.availability = a] :
           a \in {"Operative", "Inoperative"} }
  ELSE { [TemplateConnector(b) EXCEPT !.availability = a, !.status = st,
                                      !.transactionStarted = "false"] :
           a \in {"Operative", "Inoperative"}, b \in {NULL, "Preparing"},
           st \in {NULL, "Faulted"} }

PersistedConnectorsStatus ==
  UNION { { m \in [ids -> UNION {PersistedConnectorStatus(c) : c \in ids}] :
              \A c \in ids : m[c] \in PersistedConnectorStatus(c) } :
          ids \in {0..1, 1..1} }

InitBoot ==
  \E connectorsStatus \in PersistedConnectorsStatus :
    ConstructedFromFile(
      Template("h1", OneConnector, Undefined, FALSE, 1, 0, FALSE, FALSE, 60, 60),
      connectorsStatus)

\* start, open, register, boot
NextBoot ==
  \/ Start
  \/ StartEmitted
  \/ WsOpen
  \/ Registration
  \/ \E run \in BagToSet(sms) : SmsStatusNotificationResult(run)
  \/ \E run \in BagToSet(sms) : SmsRequestError(run)

SpecBoot == InitBoot /\ [][NextBoot]_vars

\* ------------------------------------------------------ message engine
\* what a step of the message handlers leaves alone
engineFrame == <<flagVars, socketVars, bootNotificationResponse, infoVars,
                 autoReconnectRetryCount, handleVars, intervals, bufferVars, mapVars,
                 acceptedListeners, templateFileWatcher, onOpenVars, smsVars, stopVars,
                 reconnectSleepers, fileVars, reservationVars, roundTrip, sweep, saveVars, resetRun, performanceVars, flushFirings>>

\* this.requests.has(messageId)
RequestCached(id) == requestState[id] = "cached"

\* a socket whose 'message' listener can still be called
SocketReceives == isWebSocketConnectionOpened \/ detached.OPEN > 0 \/ detached.CLOSING > 0

\* the request service transmits a CALL: its callbacks are put in the cache
CacheRequest(id) ==
  /\ running = "none"
  /\ isWebSocketConnectionOpened
  /\ requestState[id] = "unused"
  /\ requestState' = [requestState EXCEPT ![id] = "cached"]
  /\ UNCHANGED <<callbackCalls, inboundCalls, engineFrame>>

\* the response timeout of a cached request elapses: the entry is removed
RequestTimeout(id) ==
  /\ running = "none"
  /\ RequestCached(id)
  /\ requestState' = [requestState EXCEPT ![id] = "timedOut"]
  /\ UNCHANGED <<callbackCalls, inboundCalls, engineFrame>>

\* responseCallback of a cached request: the promise is settled, the entry removed
ResponseCallback(id) ==
  /\ requestState' = [requestState EXCEPT ![id] = "answered"]
  /\ callbackCalls' = [callbackCalls EXCEPT ![id] = @ + 1]

\* errorCallback of a cached request: the promise is rejected, the entry removed
ErrorCallback(id) ==
  /\ requestState' = [requestState EXCEPT ![id] = "failed"]
  /\ callbackCalls' = [callbackCalls EXCEPT ![id] = @ + 1]

\* faulty variant of OnMessageResponse: the cache is not tested for the message id
OnMessageResponseUnchecked(id) ==
  /\ running = "none"
  /\ SocketReceives
  /\ requestState[id] # "unused"
  /\ ResponseCallback(id)
  /\ UNCHANGED <<inboundCalls, engineFrame>>

\* onMessage of a CALLRESULT frame that carries the message id of a request sent at
\* some time: handleResponseMessage; when the id is no longer cached it throws and the
\* catch block deletes the id, which is not in the cache
OnMessageResponse(id) ==
  /\ running = "none"
  /\ SocketReceives
  /\ requestState[id] # "unused"
  /\ IF RequestCached(id)
     THEN ResponseCallback(id)
     ELSE UNCHANGED <<requestState, callbackCalls>>
  /\ UNCHANGED <<inboundCalls, engineFrame>>

\* onMessage of a CALLERROR frame: handleErrorMessage
OnMessageError(id) ==
  /\ running = "none"
  /\ SocketReceives
  /\ requestState[id] # "unused"
  /\ IF RequestCached(id)
     THEN ErrorCallback(id)
     ELSE UNCHANGED <<requestState, callbackCalls>>
  /\ UNCHANGED <<inboundCalls, engineFrame>>

\* onMessage of a CALL frame, up to the await of incomingRequestHandler
OnMessageCall(id) ==
  /\ running = "none"
  /\ SocketReceives
  /\ inboundCalls[id].pc = "none"
  /\ inboundCalls' = [inboundCalls EXCEPT ![id].pc = "handler"]
  /\ UNCHANGED <<requestState, callbackCalls, engineFrame>>

\* faulty variant of IncomingRequestHandled: the catch block sends no error
IncomingRequestHandledSendsNothing(id, threw) ==
  /\ running = "none"
  /\ inboundCalls[id].pc = "handler"
  /\ inboundCalls' = [inboundCalls EXCEPT ![id].threw = threw, ![id].pc = "done"]
  /\ UNCHANGED <<requestState, callbackCalls, engineFrame>>

\* incomingRequestHandler returns or throws; when it throws the catch block of
\* onMessage calls sendError with the message id of the frame
IncomingRequestHandled(id, threw) ==
  /\ running = "none"
  /\ inboundCalls[id].pc = "handler"
  /\ inboundCalls' =
       IF threw
       THEN [inboundCalls EXCEPT ![id].threw = TRUE, ![id].pc = "sendError",
                                 ![id].errors = @ + 1]
       ELSE [inboundCalls EXCEPT ![id].pc = "done"]
  /\ UNCHANGED <<requestState, callbackCalls, engineFrame>>

\* sendError returns (or throws): onMessage is over
SendErrorReturned(id) ==
  /\ running = "none"
  /\ inboundCalls[id].pc = "sendError"
  /\ inboundCalls' = [inboundCalls EXCEPT ![id].pc = "done"]
  /\ UNCHANGED <<requestState, callbackCalls, engineFrame>>

\* the frames of a channel and the requests of the collaborators
Engine ==
  \/ \E id \in RequestIds : CacheRequest(id)
  \/ \E id \in RequestIds : RequestTimeout(id)
  \/ \E id \in RequestIds : OnMessageResponse(id)
  \/ \E id \in RequestIds : OnMessageError(id)
  \/ \E id \in CallIds : OnMessageCall(id)
  \/ \E id \in CallIds, threw \in BOOLEAN : IncomingRequestHandled(id, threw)
  \/ \E id \in CallIds : SendErrorReturned(id)

InitEngine ==
  Constructed(Template("h1", OneConnector, Undefined, FALSE, 1, 0, FALSE, FALSE, 60, 60))

\* a station whose channel opens and closes, the requests of its own sequences
\* staying unanswered
NextEngine ==
  \/ Start
  \/ StartEmitted
  \/ WsOpen
  \/ \E code \in {"normal", "abnormal"} : WsClose(code)
  \/ Engine

SpecEngine == InitEngine /\ [][NextEngine]_vars

\* -------------------------------------------------------------- drain
\* the flush of the timer callback is not held back: channel open, station Accepted
Draining == isWebSocketConnectionOpened /\ inAcceptedState

\* bufferMessage(message) while the channel is not open
BufferMessageWhileClosed(message) == ~isWebSocketConnectionOpened /\ BufferMessage(message)

\* a firing of the flush timer once the callbacks of the sends of the previous firing
\* have been called; flushFirings counts the firings of a channel open and Accepted
FlushTimerFireCounted ==
  /\ pendingSends = EmptyBag
  /\ FlushTimerCallback
  /\ flushFirings' = IF Draining THEN flushFirings + 1 ELSE 0

InitDrain ==
  \E auto \in BOOLEAN :
    Constructed(Template("h1", OneConnector, Undefined, auto, 1, 0, FALSE, FALSE, 60, 60))

\* frames are buffered while the channel is closed; the channel opens and stays open,
\* the station registers, sends succeed
NextDrain ==
  \/ Start
  \/ StartEmitted
  \/ WsOpen
  \/ Registration
  \/ BootSequence
  \/ \E message \in Messages : BufferMessageWhileClosed(message)
  \/ FlushTimerFireCounted
  \/ \E send \in BagToSet(pendingSends) : SendCallback(send, FALSE)

SpecDrain == InitDrain /\ [][NextDrain]_vars

\* ----------------------------------------------------------- reservations
ReservationIds == {1, 2}
IdTags == {"t1", "t2"}
ReservationTerminationReasons ==
  {"CONNECTOR_STATE_CHANGED", "TRANSACTION_STARTED", "RESERVATION_CANCELED",
   "REPLACE_EXISTING", "EXPIRED", "UNKNOWN"}
MaxReservationRuns == 2

\* ids of the connectors getConnectorStatus finds
ConnectorIdsOfStation ==
  IF hasEvses THEN UNION {DOMAIN evses[e].connectors : e \in DOMAIN evses}
  ELSE DOMAIN connectors

\* the reservations a caller may hand over: of one user, not expired when handed over
Reservations ==
  [reservationId : ReservationIds, connectorId : ConnectorIdsOfStation, idTag : {"t1"},
   expired : {FALSE}]

\* faulty variant of hasReservationExpired: every reservation has expired
hasReservationExpiredAlways(reservation) == TRUE

\* isPast(reservation.expiryDate)
hasReservationExpired(reservation) == reservation.expired

\* the values of a Map in iteration order
MapValues(map) ==
  LET ids == SortedSeq(DOMAIN map) IN [i \in 1..Len(ids) |-> map[ids[i]]]

RECURSIVE EvsesConnectorStatuses(_)
EvsesConnectorStatuses(evseIds) ==
  IF evseIds = <<>> THEN <<>>
  ELSE MapValues(evses[Head(evseIds)].connectors) \o EvsesConnectorStatuses(Tail(evseIds))

\* the connector statuses in the order getReservationBy visits them
ConnectorStatusesInOrder ==
  IF hasEvses THEN EvsesConnectorStatuses(SortedSeq(DOMAIN evses)) ELSE MapValues(connectors)

\* the first reservation, in iteration order, whose filterKey field is value
getReservationBy(filterKey, value) ==
  LET matching == SelectSeq(ConnectorStatusesInOrder, LAMBDA connectorStatus :
                              /\ connectorStatus.reservation # NoReservation
                              /\ connectorStatus.reservation[filterKey] = value)
  IN IF matching = <<>> THEN NoReservation ELSE Head(matching).reservation

\* Helpers.getNumberOfReservableConnectors
getNumberOfReservableConnectorsOf(map) ==
  Cardinality({connectorId \in DOMAIN map :
                 connectorId # 0 /\ map[connectorId].status = "Available"})

RECURSIVE SumOfReservableConnectors(_)
SumOfReservableConnectors(evseIds) ==
  IF evseIds = <<>> THEN 0
  ELSE getNumberOfReservableConnectorsOf(evses[Head(evseIds)].connectors)
         + SumOfReservableConnectors(Tail(evseIds))

getNumberOfReservationsOnConnectorZero ==
  IF \/ /\ hasEvses
        /\ 0 \in DOMAIN evses
        /\ 0 \in DOMAIN evses[0].connectors
        /\ evses[0].connectors[0].reservation # NoReservation
     \/ /\ ~hasEvses
        /\ 0 \in DOMAIN connectors
        /\ connectors[0].reservation # NoReservation
  THEN 1 ELSE 0

getNumberOfReservableConnectors ==
  (IF hasEvses THEN SumOfReservableConnectors(SortedSeq(DOMAIN evses))
   ELSE getNumberOfReservableConnectorsOf(connectors))
    - getNumberOfReservationsOnConnectorZero

\* arguments is the arguments object of the call: reservationId, then idTag (NULL when
\* undefined), then connectorId (<<>> when undefined, <<n>> otherwise)
isConnectorReservable(arguments) ==
  LET reservationId == arguments[1]
      idTag == IF Len(arguments) >= 2 THEN arguments[2] ELSE NULL
      connectorId == IF Len(arguments) >= 3 THEN arguments[3] ELSE <<>>
      reservation == getReservationBy("reservationId", reservationId)
      reservationExists == reservation # NoReservation /\ ~hasReservationExpired(reservation)
      userReservation == IF idTag # NULL THEN getReservationBy("idTag", idTag)
                         ELSE NoReservation
      userReservationExists ==
        userReservation # NoReservation /\ ~hasReservationExpired(userReservation)
      notConnectorZero == IF connectorId = <<>> THEN TRUE ELSE connectorId[1] > 0
      freeConnectorsAvailable == getNumberOfReservableConnectors > 0
  IN IF Len(arguments) = 1 THEN ~reservationExists
     ELSE IF Len(arguments) > 1
     THEN ~reservationExists /\ ~userReservationExists /\ notConnectorZero
            /\ freeConnectorsAvailable
     ELSE FALSE

\* what a reservation step leaves alone
reservationFrame == <<flagVars, socketVars, bootNotificationResponse, infoVars,
                      autoReconnectRetryCount, handleVars, intervals, bufferVars,
                      acceptedListeners, templateFileWatcher, onOpenVars, smsVars, stopVars,
                      reconnectSleepers, fileVars, flushFirings, engineVars, sweep,
                      saveVars, resetRun, performanceVars>>

\* the connector statuses by connector id, as getConnectorStatus finds them
StatusesById == [connectorId \in ConnectorIdsOfStation |-> getConnectorStatus(connectorId)]

\* the connector statuses of the station become those of statuses
SetConnectorStatuses(statuses) ==
  /\ connectors' = IF hasEvses THEN connectors
                   ELSE [connectorId \in DOMAIN connectors |-> statuses[connectorId]]
  /\ evses' = IF hasEvses
              THEN [e \in DOMAIN evses |->
                      [evses[e] EXCEPT !.connectors =
                         [connectorId \in DOMAIN evses[e].connectors |-> statuses[connectorId]]]]
              ELSE evses

\* sendAndSetConnectorStatus once its request, if any, is answered: the status is set
WithStatus(statuses, connectorId, status) ==
  [statuses EXCEPT ![connectorId].status = status]

\* faulty variant of the send option: a StatusNotification for connector 0 too
sendOptionAlways(reservation) == TRUE

\* the send option handed to sendAndSetConnectorStatus
sendOption(reservation) == reservation.connectorId # 0

\* removeReservation after sendAndSetConnectorStatus has returned
ReservationCleared(statuses, reservation) ==
  [WithStatus(statuses, reservation.connectorId, "Available")
     EXCEPT ![reservation.connectorId].reservation = NoReservation]

\* a StatusNotification of a reservation call
Notification(connectorId, status) == [connectorId |-> connectorId, status |-> status]

\* an invocation of addReservation or removeReservation
ReservationRun(op, reservation, reason) ==
  [op |-> op, pc |-> "called", reservation |-> reservation, reason |-> reason,
   found |-> NoReservation, sent |-> <<>>]

\* the invocation suspends at pc, awaiting the answer to StatusNotification(status)
Suspend(runs, run, pc, connectorId, status) ==
  /\ BagCardinality(runs) < MaxReservationRuns
  /\ reservationRuns' = BagAdd(runs, [run EXCEPT !.pc = pc,
                                         !.sent = Append(@, Notification(connectorId, status))])
  /\ lastReturn' = NoReturn

\* the invocation ends; statusBefore is the status of its connector before this step
Return(runs, run, threw) ==
  /\ reservationRuns' = runs
  /\ lastReturn' = [NoReturn EXCEPT
                      !.op = run.op, !.reservation = run.reservation, !.reason = run.reason,
                      !.threw = threw, !.sent = run.sent,
                      !.statusBefore = getConnectorStatus(run.reservation.connectorId).status]

\* addReservation from the assignment of the reservation on
AttachReservation(runs, run, statuses) ==
  LET reservation == run.reservation
      attached == [statuses EXCEPT ![reservation.connectorId].reservation = reservation]
  IN IF sendOption(reservation)
     THEN /\ SetConnectorStatuses(attached)
          /\ Suspend(runs, run, "reserve", reservation.connectorId, "Reserved")
     ELSE /\ SetConnectorStatuses(WithStatus(attached, reservation.connectorId, "Reserved"))
          /\ Return(runs, run, FALSE)

AddReservation(reservation) ==
  /\ running = "none"
  /\ hasConnector(reservation.connectorId)
  /\ LET reservationFound == getReservationBy("reservationId", reservation.reservationId)
         run == [ReservationRun("addReservation", reservation, NULL)
                   EXCEPT !.found = reservationFound]
     IN IF reservationFound # NoReservation
        THEN IF sendOption(reservationFound)
             THEN /\ Suspend(reservationRuns, run, "replace",
                             reservationFound.connectorId, "Available")
                  /\ UNCHANGED mapVars
             ELSE AttachReservation(reservationRuns, run,
                                    ReservationCleared(StatusesById, reservationFound))
        ELSE AttachReservation(reservationRuns, run, StatusesById)
  /\ UNCHANGED reservationFrame

RemoveReservation(reservation, reason) ==
  /\ running = "none"
  /\ hasConnector(reservation.connectorId)
  /\ LET run == ReservationRun("removeReservation", reservation, reason)
     IN CASE reason \in {"CONNECTOR_STATE_CHANGED", "TRANSACTION_STARTED"} ->
               /\ SetConnectorStatuses(
                    [StatusesById EXCEPT ![reservation.connectorId].reservation = NoReservation])
               /\ Return(reservationRuns, run, FALSE)
          [] reason \in {"RESERVATION_CANCELED", "REPLACE_EXISTING", "EXPIRED"} ->
               IF sendOption(reservation)
               THEN /\ Suspend(reservationRuns, run, "available",
                               reservation.connectorId, "Available")
                    /\ UNCHANGED mapVars
               ELSE /\ SetConnectorStatuses(ReservationCleared(StatusesById, reservation))
                    /\ Return(reservationRuns, run, FALSE)
          [] OTHER ->
               /\ Return(reservationRuns, run, TRUE)
               /\ UNCHANGED mapVars
  /\ UNCHANGED reservationFrame

\* the StatusNotification a reservation call awaits is answered
ReservationStatusNotificationResult(run) ==
  /\ running = "none"
  /\ LET runs == BagRemove(reservationRuns, run)
     IN CASE run.pc = "available" ->
               /\ SetConnectorStatuses(ReservationCleared(StatusesById, run.reservation))
               /\ Return(runs, run, FALSE)
          [] run.pc = "replace" ->
               AttachReservation(runs, run, ReservationCleared(StatusesById, run.found))
          [] run.pc = "reserve" ->
               /\ SetConnectorStatuses(
                    WithStatus(StatusesById, run.reservation.connectorId, "Reserved"))
               /\ Return(runs, run, FALSE)
  /\ UNCHANGED reservationFrame

\* the StatusNotification a reservation call awaits is rejected: the call throws
ReservationStatusNotificationError(run) ==
  /\ running = "none"
  /\ Return(BagRemove(reservationRuns, run), run, TRUE)
  /\ UNCHANGED <<mapVars, reservationFrame>>

\* time passes the expiryDate of the reservation of a connector
ReservationExpires(connectorId) ==
  /\ running = "none"
  /\ hasConnector(connectorId)
  /\ getConnectorStatus(connectorId).reservation # NoReservation
  /\ ~hasReservationExpired(getConnectorStatus(connectorId).reservation)
  /\ SetConnectorStatuses([StatusesById EXCEPT ![connectorId].reservation.expired = TRUE])
  /\ reservationRuns' = reservationRuns
  /\ lastReturn' = NoReturn
  /\ UNCHANGED reservationFrame

\* the ways of calling isConnectorReservable: with one, two or three arguments
ReservableArguments ==
  LET reservationIds == ReservationIds \cup {3}
      optionalIdTags == IdTags \cup {NULL}
      optionalConnectorIds == {<<>>} \cup {<<connectorId>> : connectorId \in ConnectorIdsOfStation}
  IN {<<reservationId>> : reservationId \in reservationIds}
       \cup {<<reservationId, idTag>> :
               reservationId \in reservationIds, idTag \in optionalIdTags}
       \cup {<<reservationId, idTag, connectorId>> :
               reservationId \in reservationIds, idTag \in optionalIdTags,
               connectorId \in optionalConnectorIds}

IsConnectorReservable(arguments) ==
  /\ running = "none"
  /\ lastReturn' = [NoReturn EXCEPT !.op = "isConnectorReservable",
                                    !.arguments = arguments,
                                    !.result = isConnectorReservable(arguments)]
  /\ UNCHANGED <<reservationRuns, mapVars, reservationFrame>>

\* the reservations a caller of removeReservation holds: those of the connectors
HeldReservations ==
  {getConnectorStatus(connectorId).reservation : connectorId \in ConnectorIdsOfStation}
    \ {NoReservation}

\* a station restored from a persisted configuration, saved after a boot or before
ReservationConnectorsStatus(connectorIds) ==
  { [connectorId \in connectorIds |->
       [TemplateConnector(NULL) EXCEPT !.availability = "Operative",
                                       !.status = IF connectorId = 0 THEN NULL ELSE status,
                                       !.transactionStarted =
                                          IF connectorId = 0 THEN NULL ELSE "false"]] :
      status \in {NULL, "Available"} }

InitReservation ==
  \E connectorsStatus \in ReservationConnectorsStatus(0..2) :
    ConstructedFromFile(
      Template("h1", TwoConnectors, Undefined, FALSE, 1, 0, FALSE, FALSE, 60, 60),
      connectorsStatus)

\* reservation calls one at a time, while time passes
NextReservation ==
  \/ \E reservation \in Reservations :
       reservationRuns = EmptyBag /\ AddReservation(reservation) /\ UNCHANGED roundTrip
  \/ \E reservation \in HeldReservations, reason \in ReservationTerminationReasons :
       /\ reservationRuns = EmptyBag
       /\ RemoveReservation(reservation, reason)
       /\ UNCHANGED roundTrip
  \/ \E run \in BagToSet(reservationRuns) :
       ReservationStatusNotificationResult(run) /\ UNCHANGED roundTrip
  \/ \E run \in BagToSet(reservationRuns) :
       ReservationStatusNotificationError(run) /\ UNCHANGED roundTrip
  \/ \E connectorId \in ConnectorIdsOfStation :
       ReservationExpires(connectorId) /\ UNCHANGED roundTrip

SpecReservation == InitReservation /\ [][NextReservation]_vars

\* the same, with isConnectorReservable called after any step; a second call in the
\* same state returns the same and is left out
NextReservable ==
  \/ NextReservation
  \/ \E arguments \in ReservableArguments :
       /\ lastReturn.op # "isConnectorReservable"
       /\ IsConnectorReservable(arguments)
       /\ UNCHANGED roundTrip

SpecReservable == InitReservation /\ [][NextReservable]_vars

InitReservationOverlap ==
  \E connectorsStatus \in ReservationConnectorsStatus(0..1) :
    ConstructedFromFile(
      Template("h1", OneConnector, Undefined, FALSE, 1, 0, FALSE, FALSE, 60, 60),
      connectorsStatus)

\* reservation calls for one reservation id that overlap: a call may start while
\* another awaits
NextReservationOverlap ==
  \/ \E reservation \in {r \in Reservations : r.reservationId = 1} :
       AddReservation(reservation) /\ UNCHANGED roundTrip
  \/ \E reservation \in HeldReservations, reason \in ReservationTerminationReasons :
       RemoveReservation(reservation, reason) /\ UNCHANGED roundTrip
  \/ \E run \in BagToSet(reservationRuns) :
       ReservationStatusNotificationResult(run) /\ UNCHANGED roundTrip
  \/ \E run \in BagToSet(reservationRuns) :
       ReservationStatusNotificationError(run) /\ UNCHANGED roundTrip

SpecReservationOverlap == InitReservationOverlap /\ [][NextReservationOverlap]_vars

\* --------------------------------------------- addReservation, then removeReservation
\* addReservation(reservation) is called, no reservation call being in progress
RoundTripAdd(reservation) ==
  /\ roundTrip.stage \in {"none", "removed"}
  /\ reservationRuns = EmptyBag
  /\ AddReservation(reservation)
  /\ roundTrip' = [stage |-> IF lastReturn'.op = "addReservation" THEN "added" ELSE "adding",
                   reservation |-> reservation, reason |-> NULL,
                   statusBefore |-> getConnectorStatus(reservation.connectorId).status]

\* removeReservation is called with the reservation addReservation was called with
RoundTripRemove(reason) ==
  /\ roundTrip.stage = "added"
  /\ RemoveReservation(roundTrip.reservation, reason)
  /\ roundTrip' = [roundTrip EXCEPT
                     !.reason = reason,
                     !.stage = IF lastReturn'.op # "removeReservation" THEN "removing"
                               ELSE IF lastReturn'.threw THEN "added" ELSE "removed"]

\* the StatusNotification one of the two calls awaits is answered
RoundTripResult(run) ==
  /\ ReservationStatusNotificationResult(run)
  /\ roundTrip' = [roundTrip EXCEPT
                     !.stage = IF lastReturn'.op = "addReservation" THEN "added"
                               ELSE IF lastReturn'.op = "removeReservation" THEN "removed"
                               ELSE @]

\* the StatusNotification one of the two calls awaits is rejected: a removeReservation
\* that threw may be called again, an addReservation that threw is not followed further
RoundTripError(run) ==
  /\ ReservationStatusNotificationError(run)
  /\ roundTrip' = IF roundTrip.stage = "removing"
                  THEN [roundTrip EXCEPT !.stage = "added"] ELSE NoRoundTrip

NextRoundTrip ==
  \/ \E reservation \in Reservations : RoundTripAdd(reservation)
  \/ \E reason \in ReservationTerminationReasons : RoundTripRemove(reason)
  \/ \E run \in BagToSet(reservationRuns) : RoundTripResult(run)
  \/ \E run \in BagToSet(reservationRuns) : RoundTripError(run)

SpecRoundTrip == InitReservation /\ [][NextRoundTrip]_vars

\* ------------------------------------------------------ removeExpiredReservations
\* what a step of removeExpiredReservations leaves alone
sweepFrame == <<flagVars, socketVars, bootNotificationResponse, infoVars,
                autoReconnectRetryCount, handleVars, intervals, bufferVars,
                acceptedListeners, templateFileWatcher, onOpenVars, smsVars, stopVars,
                reconnectSleepers, fileVars, flushFirings, engineVars, reservationVars,
                roundTrip, saveVars, resetRun, performanceVars>>

\* the connector ids in the order removeExpiredReservations visits the connectors
SweepConnectorIds ==
  IF hasEvses THEN EvseConnectorIds(SortedSeq(DOMAIN evses)) ELSE SortedSeq(DOMAIN connectors)

\* removeExpiredReservations from position idx of the visiting order up to its next
\* suspension or its end: an expired reservation is handed to
\* removeReservation(reservation, EXPIRED), which suspends when it sends
RECURSIVE SweepFrom(_, _, _, _)
SweepFrom(statuses, idx, removed, sent) ==
  IF idx > Len(SweepConnectorIds)
  THEN [pc |-> "returned", idx |-> idx, statuses |-> statuses, removed |-> removed,
        sent |-> sent]
  ELSE LET reservation == statuses[SweepConnectorIds[idx]].reservation
       IN IF reservation # NoReservation /\ hasReservationExpired(reservation)
          THEN IF sendOption(reservation)
               THEN [pc |-> "await", idx |-> idx, statuses |-> statuses, removed |-> removed,
                     sent |-> Append(sent, Notification(reservation.connectorId, "Available"))]
               ELSE SweepFrom(ReservationCleared(statuses, reservation), idx + 1,
                              removed \cup {reservation}, sent)
          ELSE SweepFrom(statuses, idx + 1, removed, sent)

\* the sweep goes on to where progress says
SweepTo(progress, before) ==
  /\ SetConnectorStatuses(progress.statuses)
  /\ sweep' = [pc |-> progress.pc, idx |-> progress.idx, removed |-> progress.removed,
               sent |-> progress.sent, before |-> before]

\* removeExpiredReservations is called, no reservation call being in progress
RemoveExpiredReservations ==
  /\ running = "none"
  /\ sweep.pc = "idle"
  /\ reservationRuns = EmptyBag
  /\ SweepTo(SweepFrom(StatusesById, 1, {}, <<>>), StatusesById)
  /\ UNCHANGED sweepFrame

\* the StatusNotification(Available) removeReservation awaits is answered: the
\* reservation is cleared and the sweep goes on with the next connector
SweepStatusNotificationResult ==
  /\ running = "none"
  /\ sweep.pc = "await"
  /\ LET reservation == getConnectorStatus(SweepConnectorIds[sweep.idx]).reservation
     IN SweepTo(SweepFrom(ReservationCleared(StatusesById, reservation), sweep.idx + 1,
                          sweep.removed \cup {reservation}, sweep.sent),
                sweep.before)
  /\ UNCHANGED sweepFrame

\* the StatusNotification(Available) removeReservation awaits is rejected: the sweep throws
SweepStatusNotificationError ==
  /\ running = "none"
  /\ sweep.pc = "await"
  /\ sweep' = [sweep EXCEPT !.pc = "threw"]
  /\ UNCHANGED <<mapVars, sweepFrame>>

\* a station with connectors, restored or not, or a station with EVSEs
InitSweep ==
  \/ InitReservation
  \/ Constructed(Template("h1", Undefined, TwoEvses, FALSE, 1, 0, FALSE, FALSE, 60, 60))

\* reservations are added one at a time and expire; then one run of the sweep, during
\* which reservations still expire
NextSweep ==
  \/ \E reservation \in Reservations :
       /\ sweep.pc = "idle"
       /\ reservationRuns = EmptyBag
       /\ AddReservation(reservation)
       /\ UNCHANGED roundTrip
  \/ \E run \in BagToSet(reservationRuns) :
       ReservationStatusNotificationResult(run) /\ UNCHANGED roundTrip
  \/ \E connectorId \in ConnectorIdsOfStation :
       ReservationExpires(connectorId) /\ UNCHANGED roundTrip
  \/ RemoveExpiredReservations
  \/ SweepStatusNotificationResult
  \/ SweepStatusNotificationError

SpecSweep == InitSweep /\ [][NextSweep]_vars

\* ---------------------------------------------------------------------------
\* saveConfiguration(): the persisted configuration file
\* ---------------------------------------------------------------------------

MaxPendingWrites == 2
MaxFileWrites == 3

saveFrame == <<flagVars, socketVars, bootNotificationResponse, infoVars,
               autoReconnectRetryCount, handleVars, intervals, bufferVars, mapVars,
               acceptedListeners, templateFileWatcher, onOpenVars, smsVars, stopVars,
               reconnectSleepers, fileVars, flushFirings, engineVars, reservationVars,
               roundTrip, sweep, resetRun, performanceVars>>

\* the hash of the configuration data saveConfiguration() builds: the digest of
\* the JSON text of the station information, the configuration keys and the
\* connector or EVSE statuses, each map only when it is not empty
createHash(info, keys, cMap, eMap) ==
  <<info, keys>> \o (IF cMap # EmptyMap THEN <<cMap>> ELSE <<>>)
                 \o (IF eMap # EmptyMap THEN <<eMap>> ELSE <<>>)

configurationHash == createHash(stationInfo, ocppConfiguration, connectors, evses)

\* the hash test of saveConfiguration(): fileHash is <<>> while no file was read
\* or written
hashDiffers(fileHash, hash) == fileHash # <<hash>>

\* saveConfiguration() up to its return: the configuration data and its hash
\* are built, and when the hash differs from configurationFileHash the write
\* section is handed to the 'configuration' lock
SaveConfiguration ==
  /\ Len(configurationLocks) < MaxPendingWrites
  /\ configurationLocks' =
       IF hashDiffers(configurationFileHash, configurationHash)
       THEN Append(configurationLocks, configurationHash)
       ELSE configurationLocks
  /\ UNCHANGED <<configurationFileHash, fileWrites, saveFrame>>

\* the write section the lock runs: the file is written with the data built
\* by the call, then configurationFileHash is set to that call's hash
ExclusiveWrite ==
  /\ configurationLocks # <<>>
  /\ Len(fileWrites) < MaxFileWrites
  /\ fileWrites' = Append(fileWrites, Head(configurationLocks))
  /\ configurationFileHash' = <<Head(configurationLocks)>>
  /\ configurationLocks' = Tail(configurationLocks)
  /\ UNCHANGED saveFrame

\* the constructor's own save has been called
SavedOnce == configurationFileHash # <<>> \/ configurationLocks # <<>>

InitSave == InitReservationOverlap

NextSave ==
  \/ SaveConfiguration
  \/ ExclusiveWrite
  \/ \E reservation \in {r \in Reservations : r.reservationId = 1} :
       SavedOnce /\ reservationRuns = EmptyBag /\ AddReservation(reservation)
       /\ UNCHANGED roundTrip
  \/ \E reservation \in HeldReservations, reason \in {"RESERVATION_CANCELED"} :
       SavedOnce /\ reservationRuns = EmptyBag /\ RemoveReservation(reservation, reason)
       /\ UNCHANGED roundTrip
  \/ \E run \in BagToSet(reservationRuns) :
       ReservationStatusNotificationResult(run) /\ UNCHANGED roundTrip

SpecSave == InitSave /\ [][NextSave]_vars

\* ---------------------------------------------------------------------------
\* the transaction fields of the connectors
\* ---------------------------------------------------------------------------

\* connector statuses a station saved: connector 1 idle or in a transaction
TransactionConnectorsStatus ==
  { [c \in 0..1 |->
       IF c = 0 THEN [TemplateConnector(NULL) EXCEPT !.availability = "Operative"]
       ELSE [TemplateConnector(NULL) EXCEPT !.availability = "Operative",
                                            !.transactionStarted = tx[1],
                                            !.transactionId = tx[2]]] :
      tx \in {<<"false", NULL>>, <<"true", "tx">>} }

InitConnector ==
  \/ \E t \in ReloadTemplates : Constructed(t)
  \/ \E connectorsStatus \in TransactionConnectorsStatus :
       ConstructedFromFile(
         Template("h1", OneConnector, Undefined, FALSE, 1, 0, FALSE, FALSE, 60, 60),
         connectorsStatus)

\* transactions begin and end and meter values start and stop on a station
\* whose template file is rewritten
NextConnector ==
  \/ Start
  \/ StartEmitted
  \/ \E t \in ReloadTemplates : TemplateReload(t)
  \/ \E connectorId \in MeterIds : TransactionStarted(connectorId)
  \/ \E connectorId \in MeterIds : ResetConnectorStatus(connectorId)
  \/ \E connectorId \in MeterIds, interval \in IntervalChoices :
       StartMeterValues(connectorId, interval)
  \/ \E connectorId \in MeterIds : StopMeterValues(connectorId)

SpecConnector == InitConnector /\ [][NextConnector]_vars

\* the charging profiles of a connector: of no transaction, of the transaction
\* TransactionStarted begins, of another transaction
ConnectorChargingProfiles ==
  { [chargingProfileId |-> 1, transactionId |-> NULL],
    [chargingProfileId |-> 2, transactionId |-> "tx"],
    [chargingProfileId |-> 3, transactionId |-> "tx2"] }

\* saved connector statuses: connector 1 idle or in a transaction, with up to
\* three charging profiles
ProfiledConnectorsStatus ==
  { [c \in 0..1 |->
       IF c = 0 THEN connectorsStatus[0]
       ELSE [connectorsStatus[1] EXCEPT !.chargingProfiles = chargingProfiles]] :
      connectorsStatus \in TransactionConnectorsStatus,
      chargingProfiles \in {<<>>} \cup {<<p>> : p \in ConnectorChargingProfiles}
                            \cup {<<p, q>> : p, q \in ConnectorChargingProfiles}
                            \cup {<<p, q, r>> : p, q, r \in ConnectorChargingProfiles} }

InitResetConnector ==
  \E connectorsStatus \in ProfiledConnectorsStatus :
    ConstructedFromFile(
      Template("h1", OneConnector, Undefined, FALSE, 1, 0, FALSE, FALSE, 60, 60),
      connectorsStatus)

\* transactions begin and are ended by resetConnectorStatus
NextResetConnector ==
  \/ Start
  \/ StartEmitted
  \/ TransactionStarted(1)
  \/ ResetConnectorStatus(1)

SpecResetConnector == InitResetConnector /\ [][NextResetConnector]_vars

\* ---------------------------------------------------------------------------
\* initialize() with a saved configuration file
\* ---------------------------------------------------------------------------

\* no configuration file: getConfigurationFromFile() returns undefined
NoConfiguration == [templateHash |-> NULL, connectorsStatus |-> Undefined,
                    evsesStatus |-> Undefined]

SavedConnectorsStatus ==
  initializeConnectorsFromTemplate(
    Template("h1", OneConnector, Undefined, FALSE, 1, 0, FALSE, FALSE, 60, 60),
    EmptyMap, <<>>).map

SavedEvsesStatus ==
  initializeEvsesFromTemplate(
    Template("h3", Undefined, OneEvse, FALSE, 1, 0, FALSE, FALSE, 60, 60),
    EmptyMap, <<>>).map

\* configuration files: of this template or of another, with connectorsStatus,
\* evsesStatus, both or neither
Configurations ==
  {NoConfiguration} \cup
  { [templateHash |-> h, connectorsStatus |-> cs, evsesStatus |-> es] :
      h \in {"h1", "h3"},
      cs \in {Undefined, Defined(SavedConnectorsStatus)},
      es \in {Undefined, Defined(SavedEvsesStatus)} }

\* template files: ReloadTemplates and templates with both Connectors and
\* Evses, and with neither
InitializeTemplates ==
  ReloadTemplates \cup
  { Template("h4", OneConnector, OneEvse, FALSE, 1, 0, FALSE, FALSE, 60, 60),
    Template("h5", Undefined, Undefined, FALSE, 1, 0, FALSE, FALSE, 60, 60) }

\* Map.set of every saved entry on the map
MapSetAll(map, entries) ==
  [k \in DOMAIN map \cup DOMAIN entries |->
     IF k \in DOMAIN entries THEN entries[k] ELSE map[k]]

initializeConnectorsOrEvsesFromFile(configuration, cMap, cHash, eMap, eHash) ==
  IF configuration.connectorsStatus.defined /\ ~configuration.evsesStatus.defined
  THEN [connectors |-> MapSetAll(cMap, configuration.connectorsStatus.map),
        connectorsConfigurationHash |-> cHash,
        evses |-> eMap, evsesConfigurationHash |-> eHash, threw |-> FALSE]
  ELSE IF configuration.evsesStatus.defined /\ ~configuration.connectorsStatus.defined
  THEN [connectors |-> cMap, connectorsConfigurationHash |-> cHash,
        evses |-> MapSetAll(eMap, configuration.evsesStatus.map),
        evsesConfigurationHash |-> eHash, threw |-> FALSE]
  ELSE [connectors |-> cMap, connectorsConfigurationHash |-> cHash,
        evses |-> eMap, evsesConfigurationHash |-> eHash, threw |-> TRUE]

\* a variant of the test of initialize() that always takes the file
initializesFromFileAlways(stationTemplate, configuration) == TRUE

\* the test of initialize(): the saved configuration is of this template and
\* holds connectorsStatus or evsesStatus
initializesFromFile(stationTemplate, configuration) ==
  /\ configuration.templateHash = stationTemplate.templateHash
  /\ configuration.connectorsStatus.defined \/ configuration.evsesStatus.defined

initializeConnectorsOrEvses(stationTemplate, configuration, cMap, cHash, eMap, eHash) ==
  IF initializesFromFile(stationTemplate, configuration)
  THEN initializeConnectorsOrEvsesFromFile(configuration, cMap, cHash, eMap, eHash)
  ELSE initializeConnectorsOrEvsesFromTemplate(stationTemplate, cMap, cHash, eMap, eHash)

\* the template file watcher's callback when the template file is t and the
\* configuration file is configuration: initialize(), whose error the callback
\* catches and logs
Initialize(t, configuration) ==
  /\ running = "none"
  /\ templateFileWatcher
  /\ acceptedListeners < MaxListeners
  /\ templateFile' = t
  /\ LET r == initializeConnectorsOrEvses(t, configuration, connectors,
                 connectorsConfigurationHash, evses, evsesConfigurationHash)
     IN /\ connectors' = r.connectors
        /\ evses' = r.evses
        /\ connectorsConfigurationHash' = r.connectorsConfigurationHash
        /\ evsesConfigurationHash' = r.evsesConfigurationHash
        /\ lastReturn' = [NoReturn EXCEPT !.op = "initialize", !.threw = r.threw,
                            !.arguments = <<t, configuration, connectors, evses>>]
        /\ stationInfo' = IF r.threw THEN stationInfo ELSE getStationInfo(t)
        /\ ocppConfiguration' = IF r.threw THEN ocppConfiguration
                                ELSE getOcppConfiguration(t)
        /\ acceptedListeners' = IF r.threw THEN acceptedListeners
                                ELSE acceptedListeners + 1
        /\ bootNotificationResponse' = IF ~r.threw /\ t.autoRegister THEN "Accepted"
                                       ELSE bootNotificationResponse
  /\ UNCHANGED <<flagVars, socketVars, autoReconnectRetryCount, handleVars, intervals,
                 bufferVars, templateFileWatcher, onOpenVars, smsVars, stopVars,
                 reconnectSleepers, flushFirings, engineVars, reservationRuns, roundTrip,
                 sweep, saveVars, resetRun, performanceVars>>

InitInitializeFile == \E t \in ReloadTemplates : Constructed(t)

NextInitializeFile ==
  \/ Start
  \/ StartEmitted
  \/ \E t \in InitializeTemplates, configuration \in Configurations :
       Initialize(t, configuration)

SpecInitializeFile == InitInitializeFile /\ [][NextInitializeFile]_vars

\* ---------------------------------------------------------------------------
\* reset()
\* ---------------------------------------------------------------------------

resetFrame == <<flagVars, socketVars, bootNotificationResponse, infoVars,
                autoReconnectRetryCount, handleVars, intervals, bufferVars, mapVars,
                acceptedListeners, templateFileWatcher, onOpenVars, smsVars, stopVars,
                reconnectSleepers, fileVars, flushFirings, engineVars, reservationVars,
                roundTrip, sweep, saveVars, performanceVars>>

ResetCallable == resetRun.pc \in {"idle", "done", "threw"}

\* reset(reason) on a started station that is not stopping: its stop() call
\* runs up to its first await
ResetStops ==
  /\ ResetCallable
  /\ StopCall
  /\ resetRun' = [NoReset EXCEPT !.pc = "stop"]

\* reset(reason) on a station that is stopped or already stopping: its stop()
\* call only logs a warning and returns, and reset() goes on to sleep
ResetStopReturnsAtOnce ==
  /\ running = "none"
  /\ ResetCallable
  /\ ~(started /\ ~stopping)
  /\ resetRun' = [NoReset EXCEPT !.pc = "sleep"]
  /\ UNCHANGED resetFrame

Reset ==
  \/ ResetStops
  \/ ResetStopReturnsAtOnce

\* the stop() call of reset() returns: reset() goes on to sleep
ResetStopEmitted ==
  /\ resetRun.pc = "stop"
  /\ StopEmittedCall
  /\ resetRun' = [resetRun EXCEPT !.pc = "sleep"]

\* the stop() call of reset() ends with an error, and so does reset()
ResetStopRequestError ==
  /\ resetRun.pc = "stop"
  /\ StopRequestErrorCall
  /\ resetRun' = [resetRun EXCEPT !.pc = "threw"]

\* the sleep of reset() is over: initialize(), which finds the template file as
\* it is and leaves the connectors it knows, then start(), up to its
\* emit('started')
ResetWake ==
  /\ running = "none"
  /\ resetRun.pc = "sleep"
  /\ acceptedListeners < MaxListeners
  /\ LET r == initializeConnectorsOrEvsesFromTemplate(templateFile, connectors,
                 connectorsConfigurationHash, evses, evsesConfigurationHash)
         starts == ~started /\ ~starting
         o == openWSConnection(FALSE)
     IN /\ ~r.threw
        /\ connectors' = r.connectors
        /\ evses' = r.evses
        /\ connectorsConfigurationHash' = r.connectorsConfigurationHash
        /\ evsesConfigurationHash' = r.evsesConfigurationHash
        /\ stationInfo' = getStationInfo(templateFile)
        /\ ocppConfiguration' = getOcppConfiguration(templateFile)
        /\ acceptedListeners' = acceptedListeners + 1
        /\ bootNotificationResponse' = IF templateFile.autoRegister THEN "Accepted"
                                       ELSE bootNotificationResponse
        /\ starts => DetachedCount(o.detached) <= MaxDetached
        /\ wsConnection' = IF starts THEN o.ws ELSE wsConnection
        /\ detached' = IF starts THEN o.detached ELSE detached
        /\ starting' = (starts \/ starting)
        /\ templateFileWatcher' = (starts \/ templateFileWatcher)
        /\ started' = (starts \/ started)
        /\ running' = IF starts THEN "started" ELSE "none"
        /\ resetRun' = [pc |-> "done",
                        stopped |-> ~started /\ ~stopping /\ wsConnection = NULL,
                        started |-> (starts \/ started)]
  /\ UNCHANGED <<stopping, templateFile, autoReconnectRetryCount, handleVars, intervals,
                 bufferVars, onOpenVars, smsVars, stopVars, reconnectSleepers,
                 flushFirings, engineVars, reservationVars, roundTrip, sweep, saveVars, performanceVars>>

InitReset ==
  Constructed(Template("h1", OneConnector, Undefined, FALSE, 1, 0, FALSE, FALSE, 60, 60))

\* a station that is started, whose socket opens, that is stopped and reset
NextReset ==
  \/ ResetCallable /\ Start
  \/ StartEmitted
  \/ WsOpen
  \/ Stop
  \/ StopStatusNotificationResult
  \/ resetRun.pc # "stop" /\ StopEmitted
  \/ resetRun.pc # "stop" /\ StopRequestError
  \/ Reset
  \/ ResetStopEmitted
  \/ ResetStopRequestError
  \/ ResetWake

SpecReset == InitReset /\ [][NextReset]_vars

\* ---------------------------------------------------------------------------
\* charging profiles: the power limit of a connector
\* ---------------------------------------------------------------------------

\* dates are counted in units of 12 hours from an origin; durations and
\* startPeriod are counted in the same unit; an optional date or number is
\* <<>> when undefined and <<n>> when defined
Day == 2
Week == 7 * Day
\* the latest date there is (maxTime)
MaxTime == 100

ChargingSchedulePeriod(startPeriod, limit) == [startPeriod |-> startPeriod, limit |-> limit]

ChargingProfile(id, stackLevel, kind, recurrencyKind, startSchedule, duration, unit, periods) ==
  [chargingProfileId |-> id, stackLevel |-> stackLevel, chargingProfileKind |-> kind,
   recurrencyKind |-> recurrencyKind, validFrom |-> <<>>, validTo |-> <<>>,
   chargingSchedule |-> [startSchedule |-> startSchedule, duration |-> duration,
                         chargingRateUnit |-> unit, chargingSchedulePeriod |-> periods]]

\* a date or a number is <<>> when undefined and <<n>> when it is n; the pair
\* below is a Date whose time value is NaN, and a number that is NaN
NotANumber == <<0, 0>>

isValidDate(date) == Len(date) = 1

\* Number.isSafeInteger
isSafeInteger(number) == Len(number) = 1

\* a variant of the compare function that sorts by ascending stackLevel
compareStackLevelAscending(a, b) == a.stackLevel - b.stackLevel

\* the compare function of getConnectorChargingProfiles
compareStackLevel(a, b) == b.stackLevel - a.stackLevel

\* Array.prototype.sort with compareStackLevel: a stable sort
RECURSIVE sortByStackLevel(_)
sortByStackLevel(chargingProfiles) ==
  IF chargingProfiles = <<>> THEN <<>>
  ELSE LET n == Len(chargingProfiles)
           sorted == sortByStackLevel(SubSeq(chargingProfiles, 1, n - 1))
           k == Cardinality({i \in 1..Len(sorted) :
                               compareStackLevel(sorted[i], chargingProfiles[n]) <= 0})
       IN SubSeq(sorted, 1, k) \o <<chargingProfiles[n]>> \o SubSeq(sorted, k + 1, Len(sorted))

\* getConnectorChargingProfiles, given the chargingProfiles of the connector
\* and of connector 0 (<<>> when the connector is missing or has none)
getConnectorChargingProfiles(connectorProfiles, stationProfiles) ==
  sortByStackLevel(connectorProfiles) \o sortByStackLevel(stationProfiles)

\* a variant of the compare function under which the sort leaves every array
\* as it is
chargingSchedulePeriodCompareNone(a, b) == 0

\* the compare function of the schedule periods
chargingSchedulePeriodCompareFn(a, b) == a.startPeriod - b.startPeriod

\* chargingSchedulePeriod.sort(chargingSchedulePeriodCompareFn), which leaves a
\* sorted array as it is
RECURSIVE sortByStartPeriod(_)
sortByStartPeriod(periods) ==
  IF periods = <<>> THEN <<>>
  ELSE LET n == Len(periods)
           sorted == sortByStartPeriod(SubSeq(periods, 1, n - 1))
           k == Cardinality({i \in 1..Len(sorted) :
                               chargingSchedulePeriodCompareFn(sorted[i], periods[n]) <= 0})
       IN SubSeq(sorted, 1, k) \o <<periods[n]>> \o SubSeq(sorted, k + 1, Len(sorted))

\* isWithinInterval(date, { start, end }): both ends belong to the interval
isWithinInterval(date, start, end) == start <= date /\ date <= end

\* the chargingSchedule after checkRecurringChargingProfileDuration, for a
\* recurrency time interval of the given length
checkRecurringChargingProfileDuration(chargingSchedule, length) ==
  IF chargingSchedule.duration = <<>>
  THEN [chargingSchedule EXCEPT !.duration = <<length>>]
  ELSE IF chargingSchedule.duration[1] > length
  THEN [chargingSchedule EXCEPT !.duration = <<length>>]
  ELSE chargingSchedule

\* prepareRecurringChargingProfile for a profile with a startSchedule: the
\* profile it leaves; differenceInDays and differenceInWeeks count full
\* days and full weeks
prepareRecurringChargingProfile(chargingProfile, currentDate) ==
  IF chargingProfile.recurrencyKind \in {"Daily", "Weekly"}
  THEN LET length == IF chargingProfile.recurrencyKind = "Daily" THEN Day ELSE Week
           start == chargingProfile.chargingSchedule.startSchedule[1]
           checked == checkRecurringChargingProfileDuration(
                        chargingProfile.chargingSchedule, length)
       IN IF /\ ~isWithinInterval(currentDate, start, start + length)
             /\ start + length < currentDate
          THEN [chargingProfile EXCEPT !.chargingSchedule =
                  [checked EXCEPT !.startSchedule =
                     <<start + length * ((currentDate - start) \div length)>>]]
          ELSE [chargingProfile EXCEPT !.chargingSchedule = checked]
  ELSE chargingProfile

canProceedRecurringChargingProfile(chargingProfile) ==
  /\ chargingProfile.recurrencyKind # NULL
  /\ chargingProfile.chargingSchedule.startSchedule # <<>>

\* prepareChargingProfileKind: whether it returns true, and the profile it leaves
prepareChargingProfileKind(connectorStatus, chargingProfile, currentDate) ==
  IF chargingProfile.chargingProfileKind = "Recurring"
  THEN IF canProceedRecurringChargingProfile(chargingProfile)
       THEN [ok |-> TRUE,
             chargingProfile |-> prepareRecurringChargingProfile(chargingProfile, currentDate)]
       ELSE [ok |-> FALSE, chargingProfile |-> chargingProfile]
  ELSE IF chargingProfile.chargingProfileKind = "Relative"
  THEN [ok |-> TRUE,
        chargingProfile |->
          [chargingProfile EXCEPT !.chargingSchedule.startSchedule =
             IF connectorStatus.transactionStarted THEN connectorStatus.transactionStart
             ELSE <<>>]]
  ELSE [ok |-> TRUE, chargingProfile |-> chargingProfile]

canProceedChargingProfile(chargingProfile, currentDate) ==
  /\ ~(isValidDate(chargingProfile.validFrom) /\ currentDate < chargingProfile.validFrom[1])
  /\ ~(isValidDate(chargingProfile.validTo) /\ currentDate > chargingProfile.validTo[1])
  /\ chargingProfile.chargingSchedule.startSchedule # <<>>
  /\ chargingProfile.chargingSchedule.duration # <<>>
  /\ isValidDate(chargingProfile.chargingSchedule.startSchedule)
  /\ isSafeInteger(chargingProfile.chargingSchedule.duration)

\* what getLimitFromChargingProfiles returns: nothing, a limit with the unit and
\* the id of its profile, or a TypeError
NoLimit == [found |-> FALSE, threw |-> FALSE, limit |-> 0, chargingRateUnit |-> NULL,
            chargingProfileId |-> 0]

ChargingProfilesLimit(limit, chargingProfile) ==
  [NoLimit EXCEPT !.found = TRUE, !.limit = limit,
                  !.chargingRateUnit = chargingProfile.chargingSchedule.chargingRateUnit,
                  !.chargingProfileId = chargingProfile.chargingProfileId]

\* the loop over the sorted periods of a schedule with more than one period
RECURSIVE searchSchedulePeriod(_, _, _, _)
searchSchedulePeriod(chargingProfile, periods, index, currentDate) ==
  LET startSchedule == chargingProfile.chargingSchedule.startSchedule[1]
      duration == chargingProfile.chargingSchedule.duration[1]
  IN IF index > Len(periods) THEN NoLimit
     ELSE IF startSchedule + periods[index].startPeriod > currentDate
     THEN IF index = 1 THEN [NoLimit EXCEPT !.threw = TRUE]
          ELSE ChargingProfilesLimit(periods[index - 1].limit, chargingProfile)
     ELSE IF \/ index = Len(periods)
             \/ periods[index + 1].startPeriod > duration
     THEN ChargingProfilesLimit(periods[index].limit, chargingProfile)
     ELSE searchSchedulePeriod(chargingProfile, periods, index + 1, currentDate)

\* addSeconds(date, amount): a Date past maxTime is an invalid Date
addSeconds(date, amount) ==
  IF date + amount > MaxTime THEN NotANumber ELSE <<date + amount>>

\* one turn of the loop of getLimitFromChargingProfiles; the duration counted
\* from a startSchedule that is no date is NaN; isWithinInterval is false for
\* an interval whose end is an invalid Date
limitOfChargingProfile(connectorStatus, chargingProfile, currentDate) ==
  LET given == chargingProfile.chargingSchedule
      startSchedule == IF given.startSchedule = <<>>
                       THEN connectorStatus.transactionStart ELSE given.startSchedule
      duration == IF given.duration # <<>> THEN given.duration
                  ELSE IF ~isValidDate(startSchedule) THEN NotANumber
                  ELSE <<MaxTime - startSchedule[1]>>
      prepared == prepareChargingProfileKind(
                    connectorStatus,
                    [chargingProfile EXCEPT !.chargingSchedule.startSchedule = startSchedule,
                                            !.chargingSchedule.duration = duration],
                    currentDate)
      chargingSchedule == prepared.chargingProfile.chargingSchedule
      periods == sortByStartPeriod(chargingSchedule.chargingSchedulePeriod)
  IN IF ~prepared.ok THEN NoLimit
     ELSE IF ~canProceedChargingProfile(prepared.chargingProfile, currentDate) THEN NoLimit
     ELSE IF LET end == addSeconds(chargingSchedule.startSchedule[1],
                                   chargingSchedule.duration[1])
             IN \/ ~isValidDate(end)
                \/ ~isWithinInterval(currentDate, chargingSchedule.startSchedule[1], end[1])
     THEN NoLimit
     ELSE IF periods = <<>> THEN NoLimit
     ELSE IF periods[1].startPeriod # 0 THEN NoLimit
     ELSE IF Len(periods) = 1
     THEN ChargingProfilesLimit(periods[1].limit, prepared.chargingProfile)
     ELSE searchSchedulePeriod(prepared.chargingProfile, periods, 1, currentDate)

\* getLimitFromChargingProfiles: the first profile of the list that returns
getLimitFromChargingProfiles(connectorStatus, chargingProfiles, currentDate) ==
  LET results == [i \in 1..Len(chargingProfiles) |->
                    limitOfChargingProfile(connectorStatus, chargingProfiles[i], currentDate)]
      returns == {i \in 1..Len(chargingProfiles) : results[i].found \/ results[i].threw}
  IN IF returns = {} THEN NoLimit
     ELSE results[CHOOSE i \in returns : \A j \in returns : i <= j]

getNumberOfPhases(info) ==
  IF info.currentOutType = "AC"
  THEN IF info.numberOfPhases = <<>> THEN 3 ELSE info.numberOfPhases[1]
  ELSE 0

\* ACElectricUtils.powerTotal and DCElectricUtils.power, in W
powerTotal(nbOfPhases, V, Iph) == nbOfPhases * V * Iph
power(V, I) == V * I

\* a variant of the test on connectorMaximumPower that never clamps
exceedsNever(limit, maximumPower, powerDivider) == FALSE

\* limit > maximumPower / powerDivider; the quotient is Infinity for a
\* powerDivider of 0
exceeds(limit, maximumPower, powerDivider) ==
  powerDivider # 0 /\ limit * powerDivider > maximumPower

\* no limit returned; a limit is the quotient num / den
NoPowerLimit == [defined |-> FALSE, num |-> 0, den |-> 1]

getChargingStationConnectorChargingProfilesPowerLimit(info, connectorStatus, connectorProfiles, stationProfiles, currentDate) ==
  LET chargingProfiles == getConnectorChargingProfiles(connectorProfiles, stationProfiles)
      result == getLimitFromChargingProfiles(connectorStatus, chargingProfiles, currentDate)
      limit == IF result.chargingRateUnit = "W" THEN result.limit
               ELSE IF info.currentOutType = "AC"
               THEN powerTotal(getNumberOfPhases(info), info.voltageOut, result.limit)
               ELSE IF info.currentOutType = "DC"
               THEN power(info.voltageOut, result.limit)
               ELSE result.limit
  IN IF ~result.found THEN NoPowerLimit
     ELSE IF exceeds(limit, info.maximumPower, info.powerDivider)
     THEN [defined |-> TRUE, num |-> info.maximumPower, den |-> info.powerDivider]
     ELSE [defined |-> TRUE, num |-> limit, den |-> 1]

getNumberOfConnectors ==
  IF hasEvses
  THEN Cardinality({ec \in (DOMAIN evses) \X ConnectorIdsOfStation :
                      ec[1] > 0 /\ ec[2] \in DOMAIN evses[ec[1]].connectors})
  ELSE IF 0 \in DOMAIN connectors THEN Cardinality(DOMAIN connectors) - 1
  ELSE Cardinality(DOMAIN connectors)

getNumberOfEvses ==
  IF 0 \in DOMAIN evses THEN Cardinality(DOMAIN evses) - 1 ELSE Cardinality(DOMAIN evses)

getNumberOfRunningTransactions ==
  IF hasEvses
  THEN Cardinality({ec \in (DOMAIN evses) \X ConnectorIdsOfStation :
                      /\ ec[1] # 0
                      /\ ec[2] \in DOMAIN evses[ec[1]].connectors
                      /\ evses[ec[1]].connectors[ec[2]].transactionStarted = "true"})
  ELSE Cardinality({c \in DOMAIN connectors :
                      c > 0 /\ connectors[c].transactionStarted = "true"})

getPowerDivider(powerSharedByConnectors) ==
  IF powerSharedByConnectors THEN getNumberOfRunningTransactions
  ELSE IF hasEvses THEN getNumberOfEvses
  ELSE getNumberOfConnectors

\* a connector with no transaction
NoTransaction == [transactionStarted |-> FALSE, transactionStart |-> <<>>]

StackedChargingProfiles ==
  { ChargingProfile(1, stackLevel, "Absolute", NULL, <<startSchedule>>, <<4>>,
                    rate[1], <<ChargingSchedulePeriod(0, rate[2])>>) :
      stackLevel \in {1, 2}, startSchedule \in {0, 10},
      rate \in {<<"A", 10>>, <<"A", 16>>, <<"W", 7000>>} }

SeqsUpTo(S, n) == UNION {[1..m -> S] : m \in 0..n}

PowerLimitInfos ==
  { [currentOutType |-> currentOutType, numberOfPhases |-> numberOfPhases,
     voltageOut |-> 230, maximumPower |-> 11000,
     powerSharedByConnectors |-> shared, powerDivider |-> getPowerDivider(shared)] :
      currentOutType \in {"AC", "DC"}, numberOfPhases \in {<<>>, <<1>>},
      shared \in BOOLEAN }

\* getChargingStationConnectorChargingProfilesPowerLimit(chargingStation, connectorId)
PowerLimit(info, connectorProfiles, stationProfiles, currentDate) ==
  /\ lastReturn' =
       [NoReturn EXCEPT
          !.op = "getChargingStationConnectorChargingProfilesPowerLimit",
          !.arguments = <<info, NoTransaction, connectorProfiles, stationProfiles,
                          currentDate>>,
          !.result = getChargingStationConnectorChargingProfilesPowerLimit(
                       info, NoTransaction, connectorProfiles, stationProfiles, currentDate)]
  /\ UNCHANGED <<reservationRuns, roundTrip, sweep, saveVars, resetRun, performanceVars, flagVars, socketVars,
                 bootNotificationResponse, infoVars, autoReconnectRetryCount, handleVars,
                 intervals, bufferVars, mapVars, acceptedListeners, templateFileWatcher,
                 onOpenVars, smsVars, stopVars, reconnectSleepers, fileVars, flushFirings,
                 engineVars>>

RecurringChargingProfiles ==
  { ChargingProfile(1, 1, "Recurring", recurrencyKind, <<startSchedule>>, duration, "W",
                    <<ChargingSchedulePeriod(0, 5000)>>) :
      recurrencyKind \in {"Daily", "Weekly"}, startSchedule \in 0..3,
      duration \in {<<>>, <<1>>, <<20>>} }

\* prepareRecurringChargingProfile(chargingProfile, currentDate, logPrefix)
PrepareRecurringChargingProfile(chargingProfile, currentDate) ==
  /\ lastReturn' =
       [NoReturn EXCEPT
          !.op = "prepareRecurringChargingProfile",
          !.arguments = <<chargingProfile, currentDate>>,
          !.result = prepareRecurringChargingProfile(chargingProfile, currentDate)]
  /\ UNCHANGED <<reservationRuns, roundTrip, sweep, saveVars, resetRun, performanceVars, flagVars, socketVars,
                 bootNotificationResponse, infoVars, autoReconnectRetryCount, handleVars,
                 intervals, bufferVars, mapVars, acceptedListeners, templateFileWatcher,
                 onOpenVars, smsVars, stopVars, reconnectSleepers, fileVars, flushFirings,
                 engineVars>>

SchedulePeriods ==
  { ChargingSchedulePeriod(0, 10), ChargingSchedulePeriod(1, 15),
    ChargingSchedulePeriod(2, 20), ChargingSchedulePeriod(2, 25),
    ChargingSchedulePeriod(4, 30), ChargingSchedulePeriod(7, 40) }

ScheduledChargingProfiles ==
  { ChargingProfile(1, 1, "Absolute", NULL, startSchedule, duration, "W", periods) :
      startSchedule \in {<<>>, <<2>>}, duration \in {<<>>, <<3>>, <<6>>},
      periods \in SeqsUpTo(SchedulePeriods, 3) }

\* profiles with and without a validity window, with a startSchedule that is
\* a date, none or no date, with a duration that is an integer, none or NaN
ValidatedChargingProfiles ==
  { [ChargingProfile(1, 1, kind, NULL, startSchedule, duration, "W",
                     <<ChargingSchedulePeriod(0, 5000)>>)
       EXCEPT !.validFrom = validFrom, !.validTo = validTo] :
      kind \in {"Absolute", "Relative"},
      startSchedule \in {<<>>, <<0>>, <<2>>, NotANumber},
      duration \in {<<>>, <<3>>, NotANumber},
      validFrom \in {<<>>, <<3>>}, validTo \in {<<>>, <<4>>, <<6>>} }

\* getLimitFromChargingProfiles(chargingStation, connectorId, chargingProfiles,
\* logPrefix) at the date currentDate
GetLimitFromChargingProfiles(connectorStatus, chargingProfiles, currentDate) ==
  /\ lastReturn' =
       [NoReturn EXCEPT
          !.op = "getLimitFromChargingProfiles",
          !.arguments = <<connectorStatus, chargingProfiles, currentDate>>,
          !.result = getLimitFromChargingProfiles(connectorStatus, chargingProfiles,
                                                  currentDate)]
  /\ UNCHANGED <<reservationRuns, roundTrip, sweep, saveVars, resetRun, performanceVars, flagVars, socketVars,
                 bootNotificationResponse, infoVars, autoReconnectRetryCount, handleVars,
                 intervals, bufferVars, mapVars, acceptedListeners, templateFileWatcher,
                 onOpenVars, smsVars, stopVars, reconnectSleepers, fileVars, flushFirings,
                 engineVars>>

InitChargingProfiles ==
  \/ Constructed(Template("h2", TwoConnectors, Undefined, FALSE, 1, 0, FALSE, FALSE, 60, 60))
  \/ \E connectorsStatus \in TransactionConnectorsStatus :
       ConstructedFromFile(
         Template("h1", OneConnector, Undefined, FALSE, 1, 0, FALSE, FALSE, 60, 60),
         connectorsStatus)

\* each call is made on a station on which none was made yet
NextChargingProfiles ==
  \/ /\ lastReturn = NoReturn
     /\ \E info \in PowerLimitInfos,
           connectorProfiles \in SeqsUpTo(StackedChargingProfiles, 2),
           stationProfiles \in SeqsUpTo(StackedChargingProfiles, 1) :
          PowerLimit(info, connectorProfiles, stationProfiles, 2)
  \/ /\ lastReturn = NoReturn
     /\ \E chargingProfile \in RecurringChargingProfiles, currentDate \in 0..45 :
          PrepareRecurringChargingProfile(chargingProfile, currentDate)
  \/ /\ lastReturn = NoReturn
     /\ \E connectorStatus \in {NoTransaction,
                               [transactionStarted |-> TRUE, transactionStart |-> <<1>>]},
           chargingProfile \in ScheduledChargingProfiles \cup ValidatedChargingProfiles,
           currentDate \in 0..9 :
          GetLimitFromChargingProfiles(connectorStatus, <<chargingProfile>>, currentDate)

SpecChargingProfiles == InitChargingProfiles /\ [][NextChargingProfiles]_vars

\* ---------------------------------------------------------------------------
\* getStationInfo(): the serial numbers
\* ---------------------------------------------------------------------------

\* a string that may be undefined is <<>> or <<string>>; a serial number is
\* <<>> when undefined and <<prefix, suffix>> when it is the prefix followed by
\* the suffix
SerialNumberKinds == {"chargePoint", "chargeBox", "meter"}

isNotEmptyString(value) == value # <<>> /\ value[1] # ""

\* createSerialNumber(stationTemplate, stationInfo) with the random suffix drawn
createSerialNumber(stationTemplate, info, serialNumberSuffix) ==
  [info EXCEPT !.serialNumber =
     [kind \in SerialNumberKinds |->
        IF isNotEmptyString(stationTemplate.serialNumberPrefix[kind])
        THEN <<stationTemplate.serialNumberPrefix[kind][1], serialNumberSuffix>>
        ELSE info.serialNumber[kind]]]

propagateSerialNumber(stationTemplate, stationInfoSrc, stationInfoDst) ==
  [stationInfoDst EXCEPT !.serialNumber =
     [kind \in SerialNumberKinds |->
        IF /\ stationTemplate.serialNumberPrefix[kind] # <<>>
           /\ stationInfoSrc.serialNumber[kind] # <<>>
        THEN stationInfoSrc.serialNumber[kind]
        ELSE <<>>]]

\* stationTemplateToStationInfo and createSerialNumber in getStationInfoFromTemplate
getStationInfoFromTemplate(stationTemplate, serialNumberSuffix) ==
  createSerialNumber(
    stationTemplate,
    [templateHash |-> stationTemplate.templateHash,
     stationInfoPersistentConfiguration |-> stationTemplate.stationInfoPersistentConfiguration,
     serialNumber |-> [kind \in SerialNumberKinds |-> <<>>]],
    serialNumberSuffix)

\* no station info in the configuration file
NoStationInfo == [templateHash |-> "none", stationInfoPersistentConfiguration |-> TRUE,
                  serialNumber |-> [kind \in SerialNumberKinds |-> <<>>]]

getStationInfoFromFile(stationInfoPersistentConfiguration, configurationStationInfo) ==
  IF stationInfoPersistentConfiguration THEN configurationStationInfo ELSE NoStationInfo

\* getStationInfo: the templateHash and the serial numbers of the station
\* information it returns
getStationInfoSerialNumbers(stationTemplate, configurationStationInfo, serialNumberSuffix) ==
  LET stationInfoFromTemplate == getStationInfoFromTemplate(stationTemplate, serialNumberSuffix)
      stationInfoFromFile ==
        getStationInfoFromFile(stationInfoFromTemplate.stationInfoPersistentConfiguration,
                               configurationStationInfo)
  IN IF /\ stationInfoFromFile # NoStationInfo
        /\ stationInfoFromFile.templateHash = stationInfoFromTemplate.templateHash
     THEN stationInfoFromFile
     ELSE IF stationInfoFromFile # NoStationInfo
     THEN propagateSerialNumber(stationTemplate, stationInfoFromFile, stationInfoFromTemplate)
     ELSE stationInfoFromTemplate

SerialNumberPrefixes == {<<>>, <<"">>, <<"CP-">>, <<"XX-">>}

SerialNumberTemplates ==
  { [templateHash |-> "h2", stationInfoPersistentConfiguration |-> persistent,
     serialNumberPrefix |-> serialNumberPrefix] :
      persistent \in BOOLEAN,
      serialNumberPrefix \in [SerialNumberKinds -> SerialNumberPrefixes] }

\* the station infos a station saved: of the lineage h1 or h2, each serial
\* number made from the prefix CP- or missing
SavedStationInfos ==
  {NoStationInfo} \cup
  { [templateHash |-> templateHash, stationInfoPersistentConfiguration |-> TRUE,
     serialNumber |-> serialNumber] :
      templateHash \in {"h1", "h2"},
      serialNumber \in [SerialNumberKinds -> {<<>>, <<"CP-", 1>>}] }

\* getStationInfo() with the template file and the configuration file given
GetStationInfo(stationTemplate, configurationStationInfo, serialNumberSuffix) ==
  /\ lastReturn' =
       [NoReturn EXCEPT
          !.op = "getStationInfo",
          !.arguments = <<stationTemplate, configurationStationInfo, serialNumberSuffix>>,
          !.result = getStationInfoSerialNumbers(stationTemplate, configurationStationInfo,
                                                 serialNumberSuffix)]
  /\ UNCHANGED <<reservationRuns, roundTrip, sweep, saveVars, resetRun, performanceVars, flagVars, socketVars,
                 bootNotificationResponse, infoVars, autoReconnectRetryCount, handleVars,
                 intervals, bufferVars, mapVars, acceptedListeners, templateFileWatcher,
                 onOpenVars, smsVars, stopVars, reconnectSleepers, fileVars, flushFirings,
                 engineVars>>

InitStationInfo ==
  Constructed(Template("h2", TwoConnectors, Undefined, FALSE, 1, 0, FALSE, FALSE, 60, 60))

NextStationInfo ==
  /\ lastReturn = NoReturn
  /\ \E stationTemplate \in SerialNumberTemplates,
        configurationStationInfo \in SavedStationInfos,
        serialNumberSuffix \in {2, 3} :
       GetStationInfo(stationTemplate, configurationStationInfo, serialNumberSuffix)

SpecStationInfo == InitStationInfo /\ [][NextStationInfo]_vars

\* ------------------------------------------- PerformanceStatistics
\* an entry of statisticsData: every field is optional, <<>> when it is absent.
\* avgTimeMeasurement, medTimeMeasurement, ninetyFiveThPercentileTimeMeasurement and
\* stdDevTimeMeasurement are computed from measurementTimeSeries alone and are not fields here
EmptyStatisticsData ==
  [requestCount |-> <<>>, responseCount |-> <<>>, errorCount |-> <<>>, messageSize |-> <<>>,
   timeMeasurementCount |-> <<>>, currentTimeMeasurement |-> <<>>,
   minTimeMeasurement |-> <<>>, maxTimeMeasurement |-> <<>>,
   totalTimeMeasurement |-> <<>>, measurementTimeSeries |-> <<>>]

\* Map.has, the spread of Map.get (the spread of undefined has no field), Map.set
hasStatistics(data, command) == command \in DOMAIN data
spreadStatistics(data, command) ==
  IF hasStatistics(data, command) THEN data[command] ELSE EmptyStatisticsData
setStatistics(data, command, entry) ==
  [c \in DOMAIN data \cup {command} |-> IF c = command THEN entry ELSE data[c]]

\* faulty variant of addRequestStatistic: the entry set on a first count does not
\* spread the entry the command has
addRequestStatisticWithoutSpread(data, command, messageType, messageSize) ==
  IF messageType = "CALL_MESSAGE"
  THEN IF hasStatistics(data, command) /\ data[command].requestCount # <<>>
       THEN [data EXCEPT ![command].requestCount = <<@[1] + 1>>]
       ELSE setStatistics(data, command,
              [EmptyStatisticsData EXCEPT !.requestCount = <<1>>, !.messageSize = messageSize])
  ELSE IF messageType = "CALL_RESULT_MESSAGE"
  THEN IF hasStatistics(data, command) /\ data[command].responseCount # <<>>
       THEN [data EXCEPT ![command].responseCount = <<@[1] + 1>>]
       ELSE setStatistics(data, command, [EmptyStatisticsData EXCEPT !.responseCount = <<1>>])
  ELSE IF messageType = "CALL_ERROR_MESSAGE"
  THEN IF hasStatistics(data, command) /\ data[command].errorCount # <<>>
       THEN [data EXCEPT ![command].errorCount = <<@[1] + 1>>]
       ELSE setStatistics(data, command, [EmptyStatisticsData EXCEPT !.errorCount = <<1>>])
  ELSE data

\* PerformanceStatistics.addRequestStatistic: the statisticsData it leaves;
\* messageSize is <<>> when the argument is not given
addRequestStatistic(data, command, messageType, messageSize) ==
  IF messageType = "CALL_MESSAGE"
  THEN IF hasStatistics(data, command) /\ data[command].requestCount # <<>>
       THEN [data EXCEPT ![command].requestCount = <<@[1] + 1>>]
       ELSE IF messageSize # <<>>
       THEN setStatistics(data, command,
              [spreadStatistics(data, command) EXCEPT !.requestCount = <<1>>,
                                                      !.messageSize = messageSize])
       ELSE setStatistics(data, command,
              [spreadStatistics(data, command) EXCEPT !.requestCount = <<1>>])
  ELSE IF messageType = "CALL_RESULT_MESSAGE"
  THEN IF hasStatistics(data, command) /\ data[command].responseCount # <<>>
       THEN [data EXCEPT ![command].responseCount = <<@[1] + 1>>]
       ELSE setStatistics(data, command,
              [spreadStatistics(data, command) EXCEPT !.responseCount = <<1>>])
  ELSE IF messageType = "CALL_ERROR_MESSAGE"
  THEN IF hasStatistics(data, command) /\ data[command].errorCount # <<>>
       THEN [data EXCEPT ![command].errorCount = <<@[1] + 1>>]
       ELSE setStatistics(data, command,
              [spreadStatistics(data, command) EXCEPT !.errorCount = <<1>>])
  ELSE data

\* PerformanceStatistics.addPerformanceEntryToStatistics: the statisticsData it leaves
addPerformanceEntryToStatistics(data, entry) ==
  LET initialized == IF hasStatistics(data, entry.name) THEN data
                     ELSE setStatistics(data, entry.name, EmptyStatisticsData)
      statistic == initialized[entry.name]
      point == [timestamp |-> entry.startTime, value |-> entry.duration]
      OrElse(field, default) == IF field = <<>> THEN default ELSE field[1]
      least(a, b) == IF a <= b THEN a ELSE b
      greatest(a, b) == IF a >= b THEN a ELSE b
  IN [initialized EXCEPT ![entry.name] =
        [statistic EXCEPT
           !.timeMeasurementCount = <<OrElse(statistic.timeMeasurementCount, 0) + 1>>,
           !.currentTimeMeasurement = <<entry.duration>>,
           !.minTimeMeasurement =
              <<least(entry.duration, OrElse(statistic.minTimeMeasurement, entry.duration))>>,
           !.maxTimeMeasurement =
              <<greatest(entry.duration, OrElse(statistic.maxTimeMeasurement, entry.duration))>>,
           !.totalTimeMeasurement = <<OrElse(statistic.totalTimeMeasurement, 0) + entry.duration>>,
           !.measurementTimeSeries =
              IF statistic.measurementTimeSeries # <<>>
              THEN <<Append(statistic.measurementTimeSeries[1], point)>>
              ELSE <<(<<point>>)>>]]

\* what a step of the PerformanceStatistics instance leaves alone
performanceFrame == <<flagVars, socketVars, bootNotificationResponse, infoVars,
                      autoReconnectRetryCount, handleVars, intervals, bufferVars, mapVars,
                      acceptedListeners, templateFileWatcher, onOpenVars, smsVars, stopVars,
                      reconnectSleepers, fileVars, flushFirings, engineVars, reservationVars,
                      roundTrip, sweep, saveVars, resetRun>>

\* PerformanceStatistics.getInstance: the constructor runs when the station id has no
\* instance; initializePerformanceObserver makes the observer and lets it observe
GetInstance ==
  /\ IF performanceObserver = "none"
     THEN /\ performanceObserver' = "observing"
          /\ statisticsData' = EmptyMap
     ELSE UNCHANGED <<performanceObserver, statisticsData>>
  /\ UNCHANGED <<displayInterval, statisticCalls, measuresEnded, performanceFrame>>

\* performanceStatistics.addRequestStatistic(command, messageType, messageSize)
AddRequestStatistic(command, messageType, messageSize) ==
  /\ performanceObserver # "none"
  /\ statisticsData' = addRequestStatistic(statisticsData, command, messageType, messageSize)
  /\ statisticCalls' = [statisticCalls EXCEPT ![command][messageType] = @ + 1]
  /\ UNCHANGED <<performanceObserver, displayInterval, measuresEnded, performanceFrame>>

\* startLogStatisticsInterval with the statisticsInterval of the log configuration
\* (0 when logging is not enabled), on the handle displayInterval
startLogStatisticsInterval(handle, logStatisticsInterval) ==
  IF logStatisticsInterval > 0 /\ handle = "none" THEN "set" ELSE handle

\* PerformanceStatistics.start()
StatisticsStart(logStatisticsInterval) ==
  /\ performanceObserver # "none"
  /\ displayInterval' = startLogStatisticsInterval(displayInterval, logStatisticsInterval)
  /\ UNCHANGED <<statisticsData, performanceObserver, statisticCalls, measuresEnded,
                 performanceFrame>>

\* PerformanceStatistics.stop(): stopLogStatisticsInterval, performanceObserver.disconnect()
StatisticsStop ==
  /\ performanceObserver # "none"
  /\ displayInterval' = "none"
  /\ performanceObserver' = "disconnected"
  /\ UNCHANGED <<statisticsData, statisticCalls, measuresEnded, performanceFrame>>

\* PerformanceStatistics.restart(): stop() then start()
StatisticsRestart(logStatisticsInterval) ==
  /\ performanceObserver # "none"
  /\ displayInterval' = startLogStatisticsInterval("none", logStatisticsInterval)
  /\ performanceObserver' = "disconnected"
  /\ UNCHANGED <<statisticsData, statisticCalls, measuresEnded, performanceFrame>>

\* PerformanceStatistics.endMeasure(name, markId): performance.measure makes an entry,
\* which the callback of an observer that observes hands to addPerformanceEntryToStatistics
\* (one entry for each call of the callback)
EndMeasure(entry) ==
  /\ performanceObserver # "none"
  /\ measuresEnded' = [measuresEnded EXCEPT ![entry.name] = @ + 1]
  /\ statisticsData' = IF performanceObserver = "observing"
                       THEN addPerformanceEntryToStatistics(statisticsData, entry)
                       ELSE statisticsData
  /\ UNCHANGED <<performanceObserver, displayInterval, statisticCalls, performanceFrame>>

PerformanceEntries ==
  [name : Commands, startTime : {5}, duration : {1, 2}]

\* the calls so far of addRequestStatistic and of endMeasure
StatisticCallsOf(command) ==
  statisticCalls[command]["CALL_MESSAGE"] + statisticCalls[command]["CALL_RESULT_MESSAGE"]
    + statisticCalls[command]["CALL_ERROR_MESSAGE"] + statisticCalls[command]["other"]
StatisticCallsMade == StatisticCallsOf("Heartbeat") + StatisticCallsOf("StatusNotification")
MeasuresMade == measuresEnded["Heartbeat"] + measuresEnded["StatusNotification"]

InitPerformance ==
  Constructed(Template("h1", OneConnector, Undefined, FALSE, 1, 0, FALSE, FALSE, 60, 60))

\* a station with enableStatistics: the instance, the statistics of its requests and
\* responses, the measures of its commands, and the stops and restarts of the instance
NextPerformance ==
  \/ GetInstance
  \/ /\ StatisticCallsMade < MaxStatisticCalls
     /\ \E command \in Commands, messageType \in MessageTypes \cup {"other"},
           messageSize \in {<<>>, <<7>>} :
          AddRequestStatistic(command, messageType, messageSize)
  \/ \E logStatisticsInterval \in IntervalChoices : StatisticsStart(logStatisticsInterval)
  \/ StatisticsStop
  \/ \E logStatisticsInterval \in IntervalChoices : StatisticsRestart(logStatisticsInterval)
  \/ /\ MeasuresMade < MaxMeasures
     /\ \E entry \in PerformanceEntries : EndMeasure(entry)

SpecPerformance == InitPerformance /\ [][NextPerformance]_vars

\* ================================================================ claims
\* ---------------------------------------------------------------- C1
\* C1, as claimed: in every reachable state, the states observed by the listeners of
\* 'started' and 'stopped' included, started and starting are never both true and
\* stopping implies started.  start() sets started before it clears starting, and
\* stop() clears started before it clears stopping.
C1_FlagsExclusive == ~(started /\ starting) /\ (stopping => started)

\* ---------------------------------------------------------------- C2
\* C2, as claimed: the registration loop goes on after a Pending response; it ends,
\* and 'registered' is emitted, only once the status is Accepted or the retry bound
\* is reached.
C2_PendingIsRetried ==
  \A run \in BagToSet(onOpenRuns) :
    (run.pc = "registered" /\ run.last # NULL)
    => \/ run.last = "Accepted"
       \/ /\ stationInfo.registrationMaxRetries # -1
          /\ run.registrationRetryCount >= stationInfo.registrationMaxRetries

\* ---------------------------------------------------------------- C3
\* C3: with registrationMaxRetries = N >= 0 a run of the registration loop sends at most
\* N + 1 BootNotification requests; a run ends without emitting 'registered' or
\* 'accepted' only when N >= 0, after exactly N + 1 requests, the last one answered
\* Rejected (so with N = -1 the loop never gives up); 'registered' is emitted only by a
\* registered station.
C3_RegistrationLoopBounded ==
  \A run \in BagToSet(onOpenRuns) :
    /\ stationInfo.registrationMaxRetries >= 0
         => run.sent <= stationInfo.registrationMaxRetries + 1
    /\ (run.pc = "updated" /\ run.emitted = {})
         => /\ stationInfo.registrationMaxRetries >= 0
            /\ run.sent = stationInfo.registrationMaxRetries + 1
            /\ run.registrationRetryCount = run.sent
            /\ run.last = "Rejected"
            /\ ~isRegistered
    /\ run.pc = "registered" => isRegistered
    /\ "accepted" \in run.emitted => "registered" \in run.emitted

\* C3 witness: with N = 1 a run has given up after two requests, both answered Rejected
C3_Witness ==
  \E run \in BagToSet(onOpenRuns) :
    /\ stationInfo.registrationMaxRetries = 1
    /\ run.pc = "updated"
    /\ run.emitted = {}
    /\ run.sent = 2
    /\ run.last = "Rejected"

\* ---------------------------------------------------------------- C4
\* C4, as claimed: whenever the handling of a channel open ends with 'accepted' emitted,
\* on an open channel and with HeartbeatInterval > 0, the heartbeat timer is active.
C4_HeartbeatStartedOnAccepted ==
  \A run \in BagToSet(onOpenRuns) :
    (/\ run.pc = "updated"
     /\ "accepted" \in run.emitted
     /\ isWebSocketConnectionOpened
     /\ getHeartbeatInterval > 0)
    => heartbeatSetInterval = "set" /\ intervals.heartbeat = 1

\* ---------------------------------------------------------------- C5
\* C5, as claimed: at any time there is at most one active heartbeat timer, at most one
\* active WebSocket-ping timer and at most one active meter-values timer per connector.
C5_OneTimerEach ==
  /\ intervals.heartbeat <= 1
  /\ intervals.webSocketPing <= 1
  /\ \A connectorId \in MeterIds : intervals.meterValues[connectorId] <= 1

\* ---------------------------------------------------------------- C6
\* C6, as claimed: when stop() completes ('stopped' is emitted), no timer of the station
\* is active: heartbeat, WebSocket-ping, meter-values and buffer-flush timers are cancelled.
C6_NoTimerAfterStop ==
  running = "stopped"
    => /\ intervals.heartbeat = 0
       /\ intervals.webSocketPing = 0
       /\ \A connectorId \in MeterIds : intervals.meterValues[connectorId] = 0
       /\ intervals.flushMessageBuffer = 0

\* ---------------------------------------------------------------- C7
\* place of a step of stop() in the claimed order
StopRank(event) ==
  CASE event \in {"MeterValues", "StopTransaction"} -> 1
    [] event = "StatusNotification" -> 2
    [] event = "closeWSConnection" -> 3
    [] event = "started = false" -> 4
    [] event = "saveConfiguration" -> 5
    [] event = "stopped" -> 6

\* the connectors a logged request of the given kind was issued for, in order
StopLogConnectors(event) ==
  LET entries == SelectSeq(stopLog, LAMBDA e : e[1] = event)
  IN [i \in 1..Len(entries) |-> entries[i][2]]

\* what the log of a stop() invocation satisfies at every moment
StopLogOrdered ==
  /\ \A i, j \in 1..Len(stopLog) :
       i < j => StopRank(stopLog[i][1]) <= StopRank(stopLog[j][1])
  /\ \A i \in 1..Len(stopLog) :
       StopRank(stopLog[i][1]) <= 2 => stopLog[i][2] > 0
  /\ \A i \in 1..Len(stopLog) :
       stopLog[i][1] \in {"MeterValues", "StopTransaction"}
         => /\ stationInfo.stopTransactionsOnStopped
            /\ getConnectorStatus(stopLog[i][2]).transactionStarted = "true"
  /\ running = "stopped"
       => /\ StopLogConnectors("StatusNotification")
               = SortedSeq({c \in 1..2 : hasConnector(c)})
          /\ SubSeq(stopLog, Len(stopLog) - 3, Len(stopLog))
               = << <<"closeWSConnection", 0>>, <<"started = false", 0>>,
                    <<"saveConfiguration", 0>>, <<"stopped", 0>> >>
          /\ ~started
          /\ stopping
          /\ wsConnection # "OPEN"

\* what every step of a stop() invocation satisfies: no running transaction is passed over
StopPassesNoTransaction ==
  /\ (/\ stopRun.stopTransactions
      /\ stopRun.pc \in {"MeterValues", "StopTransaction"}
      /\ stopRun'.pc \notin {"MeterValues", "StopTransaction", "idle"})
     => RunningTransactionsFrom(stopRun.idx + 1) = {}
  /\ (/\ stopRun.pc = "idle" /\ stopping' /\ ~stopping
      /\ stationInfo.stopTransactionsOnStopped
      /\ stopRun'.pc \notin {"MeterValues", "StopTransaction"})
     => RunningTransactionsFrom(1) = {}
  /\ (stopRun'.pc \in {"MeterValues", "StopTransaction"} /\ stopRun'.idx # stopRun.idx)
     => /\ stopRun'.idx > stopRun.idx
        /\ RunningTransactionsFrom(stopRun.idx + 1) \cap 1..(stopRun'.idx - 1) = {}

CloseHandled(code) ==
  \/ WsClose(code)
  \/ \E state \in {"CONNECTING", "OPEN", "CLOSING"} : DetachedClose(state, code)

C9_ExactlyOneMap == (DOMAIN connectors # {}) # (DOMAIN evses # {})

\* ---------------------------------------------------------------- C10
\* the connector a startMessageSequence() invocation is notifying the boot status of
SmsConnectorStatus(run) == getConnectorStatus(SequenceConnectorIds[run.idx])

\* C10, as amended: the boot status requested for a connector is its persisted status if
\* one exists; else Unavailable if the station or the connector is unavailable; else the
\* template bootStatus if one exists; else Available.
C10_BootStatusResolution ==
  \A run \in BagToSet(sms) :
    run.pc = "status"
    => run.status =
         IF SmsConnectorStatus(run).status # NULL
         THEN SmsConnectorStatus(run).status
         ELSE IF ~isChargingStationAvailable
                 \/ ~isConnectorAvailable(SequenceConnectorIds[run.idx])
         THEN "Unavailable"
         ELSE IF SmsConnectorStatus(run).bootStatus # NULL
         THEN SmsConnectorStatus(run).bootStatus
         ELSE "Available"

\* C10, as claimed: the persisted status if one exists; else the template bootStatus if
\* one exists; else Unavailable if the station or the connector is unavailable; else
\* Available.
C10_AsClaimed ==
  \A run \in BagToSet(sms) :
    run.pc = "status"
    => run.status =
         IF SmsConnectorStatus(run).status # NULL
         THEN SmsConnectorStatus(run).status
         ELSE IF SmsConnectorStatus(run).bootStatus # NULL
         THEN SmsConnectorStatus(run).bootStatus
         ELSE IF ~isChargingStationAvailable
                 \/ ~isConnectorAvailable(SequenceConnectorIds[run.idx])
         THEN "Unavailable"
         ELSE "Available"

\* C10 witness: no persisted status, a template bootStatus, an inoperative connector:
\* Unavailable is requested
C10_Witness ==
  \E run \in BagToSet(sms) :
    /\ run.pc = "status"
    /\ SmsConnectorStatus(run).status = NULL
    /\ SmsConnectorStatus(run).bootStatus = "Preparing"
    /\ SmsConnectorStatus(run).availability = "Inoperative"
    /\ run.status = "Unavailable"

\* ---------------------------------------------------------------- C11
\* the flush timer fires on an empty buffer
FlushTimerFiresOnEmpty == FlushTimerFire /\ messageBuffer = {}

\* C11: whenever the message buffer is non-empty exactly one flush timer is active and
\* the station holds its handle; a firing of the flush timer on an empty buffer clears
\* the timer, and a firing on a non-empty buffer leaves it active.
C11_FlushTimerFollowsBuffer ==
  /\ [](messageBuffer # {}
          => flushMessageBufferSetInterval = "set" /\ intervals.flushMessageBuffer = 1)
  /\ [](intervals.flushMessageBuffer = IF flushMessageBufferSetInterval = "set" THEN 1 ELSE 0)
  /\ [][FlushTimerFiresOnEmpty
          => flushMessageBufferSetInterval' = "none" /\ intervals'.flushMessageBuffer = 0]_vars

\* C11 witness: the buffer has been drained by a successful send and the flush timer,
\* still active, has not fired since
C11_Witness ==
  /\ messageBuffer = {}
  /\ pendingSends = EmptyBag
  /\ flushMessageBufferSetInterval = "set"
  /\ intervals.flushMessageBuffer = 1
  /\ isWebSocketConnectionOpened

\* ---------------------------------------------------------------- C12
\* the step hands a buffered frame to an open channel
FrameTransmitted ==
  \E send \in BagToSet(pendingSends') :
    send.opened /\ CopiesIn(send, pendingSends') > CopiesIn(send, pendingSends)

\* C12, as claimed: every step that transmits a buffered frame is taken with the channel
\* open and the station Accepted; a frame leaves the buffer only in the callback of a
\* send of that frame that succeeded; the callback of a failed send leaves the buffer as
\* it is.
C12_FlushIsGated ==
  [][/\ FrameTransmitted => (isWebSocketConnectionOpened /\ inAcceptedState)
     /\ \A message \in messageBuffer \ messageBuffer' :
          \E send \in BagToSet(pendingSends) :
            /\ send.message = message
            /\ send.opened
            /\ pendingSends' = BagRemove(pendingSends, send)
     /\ \A send \in BagToSet(pendingSends) :
          SendCallback(send, TRUE) => messageBuffer' = messageBuffer]_vars

\* ---------------------------------------------------------------- C13
\* C13: once the channel is open and the station Accepted, both for good, and every
\* send succeeds before the flush timer fires again, the frames buffered while the
\* channel was closed are all sent by the first firing and gone once their callbacks
\* have been called; the flush timer fires at most twice, and after the second firing
\* the buffer is empty and the timer is cleared.
C13_DrainsWithinTwoFirings ==
  /\ flushFirings <= 2
  /\ (flushFirings >= 1 /\ pendingSends = EmptyBag) => messageBuffer = {}
  /\ flushFirings >= 1
       => \A message \in messageBuffer :
            \E send \in BagToSet(pendingSends) : send.message = message /\ send.opened
  /\ flushFirings = 2
       => /\ messageBuffer = {}
          /\ flushMessageBufferSetInterval = "none"
          /\ intervals.flushMessageBuffer = 0

\* C13 witness: two frames were buffered, the first firing sent them, the second
\* firing found the buffer empty and cleared the timer
C13_Witness ==
  /\ flushFirings = 2
  /\ Draining
  /\ messageBuffer = {}
  /\ flushMessageBufferSetInterval = "none"

\* ---------------------------------------------------------------- C14
\* C14: for every inbound CALL whose handler threw, sendError has been called exactly
\* once with the message id of the frame, and never for a CALL whose handler returned;
\* no step of the handling of an inbound CALL changes the pending-request cache.
C14_OneCallErrorPerFailedCall ==
  /\ [](\A id \in CallIds :
          /\ inboundCalls[id].errors = IF inboundCalls[id].threw THEN 1 ELSE 0
          /\ inboundCalls[id].pc = "sendError" => inboundCalls[id].threw)
  /\ [][(\E id \in CallIds : inboundCalls'[id] # inboundCalls[id])
          => requestState' = requestState /\ callbackCalls' = callbackCalls]_vars

\* C14 witness: the handling of an inbound CALL that threw is over, one CALLERROR was
\* sent for it, and a request is pending in the cache
C14_Witness ==
  /\ \E id \in CallIds :
       /\ inboundCalls[id].pc = "done"
       /\ inboundCalls[id].threw
       /\ inboundCalls[id].errors = 1
  /\ \E id \in RequestIds : RequestCached(id)

\* ---------------------------------------------------------------- C15
\* an inbound CALLRESULT or CALLERROR for the message id is handled
ResponseHandled(id) == OnMessageResponse(id) \/ OnMessageError(id)

OutstandingCalls ==
  BagCardinality([run \in {r \in BagToSet(onOpenRuns) : r.pc = "awaitBoot"} |-> onOpenRuns[run]])
    + BagCardinality(sms)
    + (IF stopRun.pc = "idle" THEN 0 ELSE 1)

\* C16, as claimed: at any time at most one outbound CALL of the station awaits its
\* response.
C16_OutboundCallsSerialized == OutstandingCalls <= 1

\* ---------------------------------------------------------------- C17
\* the inbound CALLs whose handling has started and is not over
InboundCallsInHandling == {id \in CallIds : inboundCalls[id].pc \in {"handler", "sendError"}}

\* C17, as claimed: the handling of an inbound CALL starts only once the handling of
\* every CALL that arrived before it is over: at most one inbound CALL is in handling.
C17_InboundCallsInOrder == Cardinality(InboundCallsInHandling) <= 1

\* ---------------------------------------------------------------- C18
\* the connectors that hold a reservation with this reservation id
HoldersOf(reservationId) ==
  {connectorId \in ConnectorIdsOfStation :
     /\ getConnectorStatus(connectorId).reservation # NoReservation
     /\ getConnectorStatus(connectorId).reservation.reservationId = reservationId}

\* a held reservation as it was handed over, before time passed its expiryDate
Unexpired(reservation) == [reservation EXCEPT !.expired = FALSE]

\* no reservation call is in progress and no reservation id is held twice
ReservationIdsHeldOnce ==
  reservationRuns = EmptyBag => \A id \in ReservationIds : Cardinality(HoldersOf(id)) <= 1

\* C18, as claimed: when addReservation(r) has returned, connector r.connectorId holds
\* r, no other connector holds a reservation with r.reservationId, the status of the
\* connector is Reserved and StatusNotification(Reserved) was sent iff r.connectorId
\* is not 0; and once the reservation calls made are over, every reservation id is
\* held by at most one connector.
C18_ReservationHeldByOneConnector ==
  /\ lastReturn.op = "addReservation" /\ ~lastReturn.threw
       => LET r == lastReturn.reservation
          IN /\ Unexpired(getConnectorStatus(r.connectorId).reservation) = r
             /\ HoldersOf(r.reservationId) = {r.connectorId}
             /\ getConnectorStatus(r.connectorId).status = "Reserved"
             /\ (\E i \in DOMAIN lastReturn.sent :
                    lastReturn.sent[i] = Notification(r.connectorId, "Reserved"))
                  <=> r.connectorId # 0
  /\ ReservationIdsHeldOnce

\* ---------------------------------------------------------------- C19
\* the connector of the reservation call that has just ended holds no reservation
ReturnedCleared ==
  getConnectorStatus(lastReturn.reservation.connectorId).reservation = NoReservation

\* the connector of the reservation call that has just ended is as the call found it:
\* it holds the reservation handed over and its status has not changed
ReturnedLeftInPlace ==
  LET connectorStatus == getConnectorStatus(lastReturn.reservation.connectorId)
  IN /\ Unexpired(connectorStatus.reservation) = Unexpired(lastReturn.reservation)
     /\ connectorStatus.status = lastReturn.statusBefore

\* C19, as claimed: when removeReservation(r, reason) has ended, for the reasons
\* CONNECTOR_STATE_CHANGED and TRANSACTION_STARTED the reservation of connector
\* r.connectorId is cleared, nothing was sent and the status is unchanged; for
\* RESERVATION_CANCELED, REPLACE_EXISTING and EXPIRED StatusNotification(Available) was
\* sent and the reservation is cleared; for any other reason an error was raised and
\* the reservation is in place.
C19_AsClaimed ==
  lastReturn.op = "removeReservation" =>
    CASE lastReturn.reason \in {"CONNECTOR_STATE_CHANGED", "TRANSACTION_STARTED"} ->
           /\ ~lastReturn.threw /\ ReturnedCleared /\ lastReturn.sent = <<>>
           /\ getConnectorStatus(lastReturn.reservation.connectorId).status
                = lastReturn.statusBefore
      [] lastReturn.reason \in {"RESERVATION_CANCELED", "REPLACE_EXISTING", "EXPIRED"} ->
           /\ ~lastReturn.threw /\ ReturnedCleared
           /\ lastReturn.sent
                = <<Notification(lastReturn.reservation.connectorId, "Available")>>
      [] OTHER ->
           lastReturn.threw /\ ReturnedLeftInPlace /\ lastReturn.sent = <<>>

\* C19, amended: as claimed, but for RESERVATION_CANCELED, REPLACE_EXISTING and EXPIRED
\* StatusNotification(Available) is sent only when r.connectorId is not 0; when that
\* request is answered, or was not sent, the status is Available and the reservation
\* is cleared; when it is rejected the call raises the error and the reservation is
\* in place.
C19_RemoveReservation ==
  lastReturn.op = "removeReservation" =>
    CASE lastReturn.reason \in {"CONNECTOR_STATE_CHANGED", "TRANSACTION_STARTED"} ->
           /\ ~lastReturn.threw /\ ReturnedCleared /\ lastReturn.sent = <<>>
           /\ getConnectorStatus(lastReturn.reservation.connectorId).status
                = lastReturn.statusBefore
      [] lastReturn.reason \in {"RESERVATION_CANCELED", "REPLACE_EXISTING", "EXPIRED"} ->
           /\ lastReturn.sent
                = IF lastReturn.reservation.connectorId # 0
                  THEN <<Notification(lastReturn.reservation.connectorId, "Available")>>
                  ELSE <<>>
           /\ IF lastReturn.threw
              THEN lastReturn.reservation.connectorId # 0 /\ ReturnedLeftInPlace
              ELSE /\ ReturnedCleared
                   /\ getConnectorStatus(lastReturn.reservation.connectorId).status
                        = "Available"
      [] OTHER ->
           lastReturn.threw /\ ReturnedLeftInPlace /\ lastReturn.sent = <<>>

\* C19 witness: a reservation of connector 0 was canceled, and nothing was sent
C19_Witness ==
  /\ lastReturn.op = "removeReservation"
  /\ lastReturn.reason = "RESERVATION_CANCELED"
  /\ lastReturn.reservation.connectorId = 0
  /\ ~lastReturn.threw
  /\ lastReturn.sent = <<>>
  /\ ReturnedCleared

\* ---------------------------------------------------------------- C20
\* the connectors that hold a reservation of this idTag that has not expired
ActiveHoldersOfIdTag(idTag) ==
  {connectorId \in ConnectorIdsOfStation :
     /\ getConnectorStatus(connectorId).reservation # NoReservation
     /\ getConnectorStatus(connectorId).reservation.idTag = idTag
     /\ ~hasReservationExpired(getConnectorStatus(connectorId).reservation)}

\* C20, as claimed: however isConnectorReservable is called, it returns true exactly
\* when no connector holds a reservation with the reservation id, the idTag, when
\* given, has no reservation that has not expired, the connector id, when given, is
\* greater than 0 and the number of reservable connectors is greater than 0.
C20_ReservableIffClaimed ==
  lastReturn.op = "isConnectorReservable" =>
    LET arguments == lastReturn.arguments
    IN lastReturn.result
         <=> /\ HoldersOf(arguments[1]) = {}
             /\ Len(arguments) >= 2 /\ arguments[2] # NULL
                  => ActiveHoldersOfIdTag(arguments[2]) = {}
             /\ Len(arguments) >= 3 /\ arguments[3] # <<>> => arguments[3][1] > 0
             /\ getNumberOfReservableConnectors > 0

\* ---------------------------------------------------------------- C21
\* C21, as claimed: when addReservation(r) and then removeReservation(r, reason) have
\* returned, reason not being CONNECTOR_STATE_CHANGED, the status of connector
\* r.connectorId is the status it had when addReservation(r) was called.
C21_StatusRestored ==
  roundTrip.stage = "removed" /\ roundTrip.reason # "CONNECTOR_STATE_CHANGED"
    => getConnectorStatus(roundTrip.reservation.connectorId).status = roundTrip.statusBefore

\* ---------------------------------------------------------------- C22
\* the expiryDate of the reservation is before now
PastExpiryDate(reservation) == reservation.expired

\* the StatusNotifications the sweep sent for this connector
SweepSentFor(connectorId) ==
  {i \in DOMAIN sweep.sent : sweep.sent[i].connectorId = connectorId}

\* the connectors whose reservation the sweep removed
SweepRemovedConnectors == {reservation.connectorId : reservation \in sweep.removed}

ConsecutiveWrites == 1..(Len(fileWrites) - 1)
C23_IdenticalSavesWriteOnce ==
  \A i \in ConsecutiveWrites : fileWrites[i] # fileWrites[i + 1]


\* C24: for every connector with id > 0, whatever connector operations have
\* run (initialization from the template or from the saved statuses,
\* resetConnectorStatus, startMeterValues, stopMeterValues), transactionStarted
\* is true if and only if transactionId is set
C24_TransactionStartedIffId ==
  \A connectorId \in ConnectorIdsOfStation :
    connectorId > 0 =>
      (getConnectorStatus(connectorId).transactionStarted = "true"
         <=> getConnectorStatus(connectorId).transactionId # NULL)

\* a connector whose transaction was ended by resetConnectorStatus after its
\* meter values were started and stopped
C24_Witness ==
  \E connectorId \in ConnectorIdsOfStation :
    /\ connectorId > 0
    /\ getConnectorStatus(connectorId).transactionStarted = "false"
    /\ getConnectorStatus(connectorId).transactionId = NULL
    /\ getConnectorStatus(connectorId).transactionSetInterval = "cleared"

\* C25: connectors XOR EVSEs
BothOrNeither(connectorsDeclared, evsesDeclared) == connectorsDeclared = evsesDeclared

InitializeTemplate == lastReturn.arguments[1]
InitializeConfiguration == lastReturn.arguments[2]
InitializeLeftMaps ==
  connectors = lastReturn.arguments[3] /\ evses = lastReturn.arguments[4]

C26_ResetStopsThenStarts ==
  resetRun.pc = "done" => resetRun.stopped /\ resetRun.started

\* C27: the profiles of the connector come before those of connector 0, each
\* group by descending stackLevel
PowerLimitCalled == lastReturn.op = "getChargingStationConnectorChargingProfilesPowerLimit"
PowerLimitInfo == lastReturn.arguments[1]

\* the limit the profile yields when it is the only one, nothing when it yields none
YieldOf(chargingProfile) ==
  getLimitFromChargingProfiles(lastReturn.arguments[2], <<chargingProfile>>,
                               lastReturn.arguments[5])

\* the profiles of the list that yield a limit and that no profile of the list
\* that yields one exceeds in stackLevel
HighestYielding(chargingProfiles) ==
  {i \in 1..Len(chargingProfiles) :
     /\ YieldOf(chargingProfiles[i]).found
     /\ \A j \in 1..Len(chargingProfiles) :
          YieldOf(chargingProfiles[j]).found
            => chargingProfiles[j].stackLevel <= chargingProfiles[i].stackLevel}

\* the limit of the profile in W
WattsOf(chargingProfile) ==
  LET limit == YieldOf(chargingProfile).limit
  IN IF chargingProfile.chargingSchedule.chargingRateUnit = "W" THEN limit
     ELSE IF PowerLimitInfo.currentOutType = "AC"
     THEN limit * PowerLimitInfo.voltageOut
            * (IF PowerLimitInfo.numberOfPhases = <<>> THEN 3
               ELSE PowerLimitInfo.numberOfPhases[1])
     ELSE limit * PowerLimitInfo.voltageOut

\* the value returned is the limit of the profile, or the maximum power of the
\* connector when the limit is above it
ReturnedFor(chargingProfile) ==
  \/ lastReturn.result = [defined |-> TRUE, num |-> WattsOf(chargingProfile), den |-> 1]
  \/ /\ PowerLimitInfo.powerDivider > 0
     /\ WattsOf(chargingProfile) * PowerLimitInfo.powerDivider > PowerLimitInfo.maximumPower
     /\ lastReturn.result = [defined |-> TRUE, num |-> PowerLimitInfo.maximumPower,
                             den |-> PowerLimitInfo.powerDivider]

\* C27: the resolver returns the limit of the first profile that yields one,
\* the profiles of the connector coming before those of connector 0 and, in
\* each group, a higher stackLevel before a lower one; it returns nothing when
\* no profile yields a limit
C27_FirstYieldingProfileByStackLevel ==
  PowerLimitCalled =>
    LET connectorProfiles == lastReturn.arguments[3]
        stationProfiles == lastReturn.arguments[4]
    IN IF HighestYielding(connectorProfiles) # {}
       THEN \E i \in HighestYielding(connectorProfiles) : ReturnedFor(connectorProfiles[i])
       ELSE IF HighestYielding(stationProfiles) # {}
       THEN \E i \in HighestYielding(stationProfiles) : ReturnedFor(stationProfiles[i])
       ELSE ~lastReturn.result.defined

\* two active profiles of the connector, stackLevel 1 with 16 A listed before
\* stackLevel 2 with 10 A, three phases at 230 V AC: 6900 W
C27_Witness ==
  /\ PowerLimitCalled
  /\ PowerLimitInfo.currentOutType = "AC"
  /\ PowerLimitInfo.numberOfPhases = <<>>
  /\ Len(lastReturn.arguments[3]) = 2
  /\ lastReturn.arguments[3][1].stackLevel = 1
  /\ YieldOf(lastReturn.arguments[3][1]).limit = 16
  /\ lastReturn.arguments[3][1].chargingSchedule.chargingRateUnit = "A"
  /\ lastReturn.arguments[3][2].stackLevel = 2
  /\ YieldOf(lastReturn.arguments[3][2]).limit = 10
  /\ lastReturn.arguments[3][2].chargingSchedule.chargingRateUnit = "A"
  /\ lastReturn.result = [defined |-> TRUE, num |-> 6900, den |-> 1]

\* C28: a limit that getChargingStationConnectorChargingProfilesPowerLimit
\* returns is at most maximumPower / powerDivider, which is Infinity for a
\* powerDivider of 0, whether powerDivider is the number of connectors or the
\* number of running transactions
C28_LimitAtMostConnectorMaximumPower ==
  PowerLimitCalled /\ lastReturn.result.defined =>
    \/ PowerLimitInfo.powerDivider = 0
    \/ lastReturn.result.num * PowerLimitInfo.powerDivider
         <= PowerLimitInfo.maximumPower * lastReturn.result.den

\* a profile limit above the maximum power of the connector was clamped on a
\* station that shares its power among the running transactions
C28_Witness ==
  /\ PowerLimitCalled
  /\ PowerLimitInfo.powerSharedByConnectors
  /\ PowerLimitInfo.powerDivider > 0
  /\ PowerLimitInfo.powerDivider = getNumberOfRunningTransactions
  /\ \E i \in 1..Len(lastReturn.arguments[3]) :
       /\ YieldOf(lastReturn.arguments[3][i]).found
       /\ WattsOf(lastReturn.arguments[3][i]) > PowerLimitInfo.maximumPower
  /\ lastReturn.result = [defined |-> TRUE, num |-> PowerLimitInfo.maximumPower,
                          den |-> PowerLimitInfo.powerDivider]

PrepareRecurringCalled == lastReturn.op = "prepareRecurringChargingProfile"
RecurrencyLength ==
  IF lastReturn.arguments[1].recurrencyKind = "Daily" THEN Day ELSE Week
StartScheduleBefore == lastReturn.arguments[1].chargingSchedule.startSchedule[1]
StartScheduleAfter == lastReturn.result.chargingSchedule.startSchedule[1]

\* C29: after the preparation of a recurring profile whose startSchedule is
\* not in the future, startSchedule has moved forward by a whole number of days
\* (DAILY) or of weeks (WEEKLY) and the current date lies in
\* [startSchedule, startSchedule + period)
C29_NowInRecurrencyInterval ==
  PrepareRecurringCalled /\ StartScheduleBefore <= lastReturn.arguments[2] =>
    /\ \E k \in 0..MaxTime : StartScheduleAfter = StartScheduleBefore + k * RecurrencyLength
    /\ StartScheduleAfter <= lastReturn.arguments[2]
    /\ lastReturn.arguments[2] < StartScheduleAfter + RecurrencyLength

GetLimitCalled == lastReturn.op = "getLimitFromChargingProfiles"
ProfileOfCall == lastReturn.arguments[2][1]
ScheduleOfCall == lastReturn.arguments[2][1].chargingSchedule
PeriodsOfCall == ScheduleOfCall.chargingSchedulePeriod

\* the start of the schedule: its startSchedule, or the start of the
\* transaction of the connector when it has none
StartOfCall ==
  IF ScheduleOfCall.startSchedule # <<>> THEN ScheduleOfCall.startSchedule
  ELSE lastReturn.arguments[1].transactionStart

DurationOfCall ==
  IF ScheduleOfCall.duration # <<>> THEN ScheduleOfCall.duration[1]
  ELSE MaxTime - StartOfCall[1]

\* the profile, of kind Absolute, is valid and active at the current date and
\* has schedule periods
ActiveCall ==
  /\ GetLimitCalled
  /\ ProfileOfCall.chargingProfileKind = "Absolute"
  /\ isValidDate(ProfileOfCall.validFrom) => ProfileOfCall.validFrom[1] <= lastReturn.arguments[3]
  /\ isValidDate(ProfileOfCall.validTo) => lastReturn.arguments[3] <= ProfileOfCall.validTo[1]
  /\ isValidDate(StartOfCall)
  /\ ScheduleOfCall.duration # <<>> => isSafeInteger(ScheduleOfCall.duration)
  /\ StartOfCall[1] <= lastReturn.arguments[3]
  /\ lastReturn.arguments[3] <= StartOfCall[1] + DurationOfCall
  /\ PeriodsOfCall # <<>>

\* the periods that have begun at the current date, within the duration
BegunPeriods ==
  {i \in 1..Len(PeriodsOfCall) :
     /\ StartOfCall[1] + PeriodsOfCall[i].startPeriod <= lastReturn.arguments[3]
     /\ PeriodsOfCall[i].startPeriod <= DurationOfCall}

\* of the begun periods the one of greatest startPeriod, the last listed of
\* those that share it
CurrentPeriod ==
  CHOOSE i \in BegunPeriods :
    \A j \in BegunPeriods :
      \/ PeriodsOfCall[j].startPeriod < PeriodsOfCall[i].startPeriod
      \/ PeriodsOfCall[j].startPeriod = PeriodsOfCall[i].startPeriod /\ j <= i

\* C30: an active profile one of whose periods has startPeriod 0, the least,
\* yields the limit of the period of greatest startPeriod among those that
\* have begun at the current date, whatever the order of the list; a profile
\* whose least startPeriod is not 0 yields no limit
C30_LimitOfCurrentPeriod ==
  ActiveCall =>
    IF \E i \in 1..Len(PeriodsOfCall) : PeriodsOfCall[i].startPeriod = 0
    THEN /\ lastReturn.result.found
         /\ ~lastReturn.result.threw
         /\ lastReturn.result.limit = PeriodsOfCall[CurrentPeriod].limit
    ELSE ~lastReturn.result.found /\ ~lastReturn.result.threw

\* three periods listed out of order, the current date in the second of them
C30_Witness ==
  /\ ActiveCall
  /\ Len(PeriodsOfCall) = 3
  /\ PeriodsOfCall[1].startPeriod > PeriodsOfCall[2].startPeriod
  /\ PeriodsOfCall[3].startPeriod = 0
  /\ CurrentPeriod = 2
  /\ lastReturn.result.found
  /\ lastReturn.result.limit = PeriodsOfCall[2].limit

\* C31: a profile of kind Absolute yields a limit only if the current date is
\* not before validFrom and not after validTo, its startSchedule is a date, its
\* duration is a safe integer and the current date lies in
\* [startSchedule, startSchedule + duration)
C31_YieldsOnlyInWindow ==
  GetLimitCalled /\ ProfileOfCall.chargingProfileKind = "Absolute" /\ lastReturn.result.found =>
    /\ isValidDate(ProfileOfCall.validFrom) => ProfileOfCall.validFrom[1] <= lastReturn.arguments[3]
    /\ isValidDate(ProfileOfCall.validTo) => lastReturn.arguments[3] <= ProfileOfCall.validTo[1]
    /\ isValidDate(StartOfCall)
    /\ ScheduleOfCall.duration # <<>> => isSafeInteger(ScheduleOfCall.duration)
    /\ StartOfCall[1] <= lastReturn.arguments[3]
    /\ lastReturn.arguments[3] < StartOfCall[1] + DurationOfCall

\* the profile of the call without the startSchedule it carried
ProfileWithoutStartSchedule ==
  [ProfileOfCall EXCEPT !.chargingSchedule.startSchedule = <<>>]

\* C32: for a profile of kind Relative on a connector with a transaction the
\* resolver takes the start of the transaction as startSchedule and the
\* startSchedule the profile carried has no effect on what it returns; on a
\* connector without transaction the profile yields no limit
C32_RelativeUsesTransactionStart ==
  GetLimitCalled /\ ProfileOfCall.chargingProfileKind = "Relative" =>
    IF lastReturn.arguments[1].transactionStarted
    THEN lastReturn.result =
           getLimitFromChargingProfiles(lastReturn.arguments[1],
                                        <<ProfileWithoutStartSchedule>>,
                                        lastReturn.arguments[3])
    ELSE ~lastReturn.result.found

GetStationInfoCalled == lastReturn.op = "getStationInfo"

\* the serial number createSerialNumber makes for the kind from the prefix of
\* the template, none for a prefix that is missing or empty
RegeneratedSerialNumber(kind) ==
  IF isNotEmptyString(lastReturn.arguments[1].serialNumberPrefix[kind])
  THEN <<lastReturn.arguments[1].serialNumberPrefix[kind][1], lastReturn.arguments[3]>>
  ELSE <<>>

\* C33: when the configuration file holds a station info of another
\* templateHash, the new station info has the persisted serial number of a kind
\* if the template declares the prefix that serial number was made from, and
\* the serial number regenerated from the template's prefix otherwise
C33_SerialNumberCarriedOnSamePrefix ==
  /\ GetStationInfoCalled
  /\ lastReturn.arguments[1].stationInfoPersistentConfiguration
  /\ lastReturn.arguments[2] # NoStationInfo
  /\ lastReturn.arguments[2].templateHash # lastReturn.arguments[1].templateHash
  => \A kind \in SerialNumberKinds :
       LET persisted == lastReturn.arguments[2].serialNumber[kind]
       IN lastReturn.result.serialNumber[kind] =
            IF /\ persisted # <<>>
               /\ lastReturn.arguments[1].serialNumberPrefix[kind] = <<persisted[1]>>
            THEN persisted
            ELSE RegeneratedSerialNumber(kind)

\* C34: once a call of stop() has ended, by returning or by the rejection of a
\* request of the stop message sequence, stopping is false: no later stop()
\* is refused as already stopping
C34_StoppingClearedWhenStopEnds ==
  stopRun = IdleStop /\ running # "stopped" => ~stopping

C36_OneBootSequencePerAccepted ==
  [][running = "registered" /\ inAcceptedState /\ running' = "updated" =>
       BagCardinality(sms') = BagCardinality(sms) + 1]_vars

\* the charging profiles of the connector status that are not bound to its
\* transaction, all of them when it has no transaction
ProfilesOfOtherTransactions(connectorStatus) ==
  LET NotBound(chargingProfile) ==
        \/ connectorStatus.transactionId = NULL
        \/ chargingProfile.transactionId # connectorStatus.transactionId
  IN SelectSeq(connectorStatus.chargingProfiles, NotBound)

\* C37: resetConnectorStatus leaves on the connector the charging profiles
\* that are not bound to its current transaction, all of them when it has no
\* transaction, so that a second call in a row removes nothing more
C37_ResetKeepsOtherProfiles ==
  [][ResetConnectorStatus(1) =>
       connectors'[1].chargingProfiles = ProfilesOfOtherTransactions(connectors[1])]_vars

\* C38: each buffered frame is transmitted successfully at most once, also when two
\* flushes overlap: a send callback called without error is the callback of a frame
\* that is still in the buffer, that is, of a frame no earlier send has transmitted
\* (a frame leaves the buffer only in the callback of a send that succeeded)
C38_FrameTransmittedAtMostOnce ==
  [][\A send \in BagToSet(pendingSends) :
       SendCallback(send, FALSE) => send.message \in messageBuffer]_vars
\* the value of an optional counter: 0 while the entry or the field is absent
CountOf(data, command, field) ==
  IF hasStatistics(data, command) /\ data[command][field] # <<>> THEN data[command][field][1] ELSE 0

\* the fields of an entry addRequestStatistic has no reason to touch for the message type
TimeMeasurementFields ==
  {"timeMeasurementCount", "currentTimeMeasurement", "minTimeMeasurement",
   "maxTimeMeasurement", "totalTimeMeasurement", "measurementTimeSeries"}
CounterOfMessageType(messageType) ==
  IF messageType = "CALL_MESSAGE" THEN "requestCount"
  ELSE IF messageType = "CALL_RESULT_MESSAGE" THEN "responseCount"
  ELSE IF messageType = "CALL_ERROR_MESSAGE" THEN "errorCount" ELSE "none"
UntouchedFields(messageType) ==
  ({"requestCount", "responseCount", "errorCount"} \ {CounterOfMessageType(messageType)})
    \cup TimeMeasurementFields

\* C39: for every command, requestCount, responseCount and errorCount are the numbers
\* of addRequestStatistic calls made for it with CALL, CALLRESULT and CALLERROR, whatever
\* performance entries were added in between; a call changes no other counter, no
\* time-measurement field, no entry of another command, and a call with an unknown
\* message type changes nothing
C39_CountersEqualCalls ==
  /\ [](\A command \in Commands :
          /\ CountOf(statisticsData, command, "requestCount") = statisticCalls[command]["CALL_MESSAGE"]
          /\ CountOf(statisticsData, command, "responseCount") = statisticCalls[command]["CALL_RESULT_MESSAGE"]
          /\ CountOf(statisticsData, command, "errorCount") = statisticCalls[command]["CALL_ERROR_MESSAGE"])
  /\ [][\A command \in Commands, messageType \in MessageTypes \cup {"other"} :
          statisticCalls'[command][messageType] = statisticCalls[command][messageType] + 1
            => /\ \A other \in Commands \ {command} :
                    /\ hasStatistics(statisticsData', other) = hasStatistics(statisticsData, other)
                    /\ hasStatistics(statisticsData, other)
                         => statisticsData'[other] = statisticsData[other]
               /\ \A field \in UntouchedFields(messageType) :
                    spreadStatistics(statisticsData', command)[field]
                      = spreadStatistics(statisticsData, command)[field]
               /\ messageType = "other" => statisticsData' = statisticsData]_vars

\* calls of every message type for one command, between and after its performance entries
C39_Witness ==
  /\ statisticCalls["Heartbeat"]["CALL_MESSAGE"] = 2
  /\ statisticCalls["Heartbeat"]["CALL_RESULT_MESSAGE"] = 1
  /\ CountOf(statisticsData, "Heartbeat", "timeMeasurementCount") = 2
  /\ statisticsData["Heartbeat"].requestCount = <<2>>
  /\ statisticsData["Heartbeat"].responseCount = <<1>>
\* C40: also after stop() followed by start(), or after restart(), every performance
\* measure that ends is recorded by the instance: the time-measurement count of its
\* command increases by one
C40_MeasuresRecordedAfterRestart ==
  [][\A name \in Commands :
       measuresEnded'[name] = measuresEnded[name] + 1
         => CountOf(statisticsData', name, "timeMeasurementCount")
              = CountOf(statisticsData, name, "timeMeasurementCount") + 1]_vars
====
